---- MODULE Spec2Model ----
(***************************************************************************)
(* State-machine model of the Diamond pipeline:                            *)
(*   - write_json_contract / load_signal on the contract file              *)
(*     (diamond_v17.2_main.py, diamond_v17_main.py,                        *)
(*      diamond_v16_1_execution_engine.py)                                 *)
(*   - the v17.2 Strategy run (diamond_v17.2_main.py main)                 *)
(*   - the Execution run (diamond_v16_1_execution_engine.py main)          *)
(*   - the Orchestrator loop (main.py), which runs diamond_v17_main.main   *)
(*     and diamond_v16_1_execution_engine.main                             *)
(***************************************************************************)
EXTENDS Integers, Sequences, FiniteSets, TLC

(***************************************************************************)
(* Bounds of the model                                                     *)
(***************************************************************************)
MaxWrites == 2
MaxReads == 2
MaxUniverse == 20        \* largest index list (raw_symbols) of a Strategy run
MaxExecRuns == 3         \* Execution runs against one worksheet
MaxTicks == 1            \* iterations of the Orchestrator loop after the first
MaxOrchUniverse == 2     \* largest index list of an Orchestrator-started run
MaxDays == 2             \* days the date advances over the runs of the quarantine store
MaxSectorSize == 11      \* largest number of processed items of one sector
MaxExtraSectors == 7     \* sectors of MIN_SECTOR_SIZE items beyond the first three
MaxSetups == 7           \* largest universe of the contract one Execution run refines

(***************************************************************************)
(* Configuration of diamond_v17.2_main.py                                  *)
(***************************************************************************)
MAX_FAILURE_RATE_PCT == 15      \* MAX_FAILURE_RATE = 0.15, in percent
FUNDAMENTAL_ABORT_PCT == 5      \* FUNDAMENTAL_ABORT = 0.05, in percent
QUARANTINE_DAYS == 7
MIN_BARS_REQUIRED == 100
MIN_SECTOR_SIZE == 5
SCORE_THRESHOLD == 75
DISPERSION_THRESHOLD == 15

(***************************************************************************)
(* Configuration of diamond_v16_1_execution_engine.py                      *)
(***************************************************************************)
EXEC_MIN_BARS_REQUIRED == 50    \* MIN_BARS_REQUIRED of the Execution engine

(***************************************************************************)
(* Configuration of main.py                                                *)
(***************************************************************************)
EXECUTION_INTERVAL_MIN == 15    \* EXECUTION_INTERVAL = 900 seconds
STRATEGY_RUN_MINUTE == 555      \* STRATEGY_RUN_TIME = "09:15"

(***************************************************************************)
(* Contract values and file contents                                       *)
(***************************************************************************)
Symbols == {"RELIANCE", "INFY"}

\* A candidate of the contract's universe: the keys load_signal requires.
Cand(sym, sc) == [symbol |-> sym, score |-> sc]

\* write_json_contract's dict: meta, timestamp, count, universe.
Contract(ks, ts, cands) ==
    [meta |-> [kill_switch |-> ks,
               protocol |-> IF ks THEN "REDUCE_SIZE_50" ELSE "NORMAL_SIZE_100"],
     timestamp |-> ts,
     count |-> Len(cands),
     universe |-> cands]

EmptyBody == Contract(FALSE, 0, <<>>)

\* A path of the file system: absent, or a file whose JSON text is complete
\* or cut short (partial).
AbsentFile == [state |-> "absent", body |-> EmptyBody]
CompleteFile(c) == [state |-> "complete", body |-> c]
PartialFile(c) == [state |-> "partial", body |-> c]

VARIABLES
    stage,          \* the script the process runs: "strategy" or "execution"
    signal_file,    \* SIGNAL_FILE  "diamond_signal.json"
    temp_file,      \* f"{SIGNAL_FILE}.tmp"
    wpc,            \* position of the process inside write_json_contract
    w_contract,     \* the contract dict being written
    w_prev,         \* SIGNAL_FILE as it was when the write began (history)
    w_failed,       \* the I/O step of this write that raised ("none" if none)
    w_ret,          \* how write_json_contract ended: "none", "normal", "raised"
    w_count,        \* number of writes begun (bounds the run)
    rpc,            \* position of a reader inside load_signal
    r_obs,          \* what the reader's last completed load_signal observed
    r_count,        \* number of loads begun (bounds the run)
    \* ---- the v17.2 Strategy run (diamond_v17.2_main.py main) ----
    spc,            \* position of the run inside main
    today,          \* datetime.now().date(), as a day number
    q_file,         \* QUARANTINE_FILE: symbol -> stored date
    q_data,         \* the run's in-memory quarantine dict
    raw_symbols,    \* the index list, df_list["Symbol"].tolist()
    symbols,        \* the universe after the quarantine filter
    failures,       \* symbols whose price frame was missing or too short
    decision,       \* the circuit breaker's branch: none/abort/refresh/skip
    alerts,         \* send_msg calls of the run
    writes,         \* artifacts the run wrote, in order (history)
    fetches,        \* data fetches the run issued after the probe (history)
    s_signal0,      \* SIGNAL_FILE as it was when the run began (history)
    s_probe,        \* what check_market_health returned: none/ok/failed
    s_ret,          \* how main ended: "none", "normal", "raised"
    \* ---- the Execution run (diamond_v16_1_execution_engine.py main) ----
    epc,            \* position of the run inside main
    clock,          \* ist_now(): [date, minute, sec]
    run_id,         \* generate_run_id() of the run
    e_probe,        \* what check_market_health returned: none/ok/failed
    e_meta,         \* meta of the loaded contract
    e_universe,     \* valid_universe of the loaded contract
    executable_setups,  \* setups that passed refine_trade
    sheet_rows,     \* the rows prepared for the sheet
    e_gate,         \* the last check_sheets_idempotency call: input, sheet, output
    e_alerts,       \* send_msg calls of the run
    e_hist,         \* hist, the frames the bulk download gave: symbol -> frame
    e_shown,        \* the setups listed in the message the run sent
    e_fetches,      \* data fetches the run issued after the probe (history)
    e_appends,      \* append_rows calls of the run (history)
    worksheet,      \* the "history" worksheet: all its rows, header first
    lookups_ok,     \* no get_all_values call has failed so far (history)
    e_runs,         \* number of Execution runs begun (bounds the run)
    e_ret,          \* how main ended: "none", "normal", "raised"
    \* ---- the Orchestrator loop (main.py main) ----
    opc,            \* position of the loop: tick, strategy, exec_check, execution, sleep
    last_strategy_run,  \* the date of the last completed Strategy run, 0 for None
    strategy_starts,    \* the dates on which diamond_v17_main.main was called (history)
    exec_starts,        \* the tick times at which the Execution main was called (history)
    strategy_returns,   \* the normal returns of the Strategy main: the tick's date and the number of starts so far (history)
    o_ticks,        \* iterations begun (bounds the run)
    \* ---- calls of is_quarantined, one at a time ----
    q_paroled,      \* symbols some call has seen with days_served >= QUARANTINE_DAYS (history)
    q_last,         \* the last call: its symbol, what it returned, whether it paroled
    q_add,          \* the last call of add_to_quarantine: its arguments, effect and outcome
    \* ---- one call of calculate_score ----
    score_in,       \* the arguments, as the values calculate_score reads from them
    score_out,      \* what the call gave: not called yet, None, a raise, or a Candidate
    \* ---- the logic engine of a Strategy run (main, lines 398-423) ----
    gpc,            \* position of the run: governance, score, sort, write, writing, done, raised
    stock_data,     \* processed_data: one item per symbol that was processed
    sector_map,     \* calculate_sector_metrics' scores: sector -> score
    dispersion,     \* calculate_sector_metrics' dispersion, squared: [num, den]
    kill_switch,    \* dispersion < DISPERSION_THRESHOLD
    sorted_secs,    \* calculate_sector_metrics' ranking: the sectors by median, best first
    candidates,     \* the results whose score is above SCORE_THRESHOLD
    rejected        \* the other results

fsVars == <<signal_file, temp_file>>
writerVars == <<wpc, w_contract, w_prev, w_failed, w_ret, w_count>>
readerVars == <<rpc, r_obs, r_count>>
stratVars == <<spc, today, q_file, q_data, raw_symbols, symbols, failures,
               decision, alerts, writes, fetches, s_signal0, s_probe, s_ret>>

execVars == <<epc, clock, run_id, e_probe, e_meta, e_universe, executable_setups,
              sheet_rows, e_gate, e_alerts, e_hist, e_shown, e_fetches, e_appends, worksheet,
              lookups_ok, e_runs, e_ret>>

orchVars == <<opc, last_strategy_run, strategy_starts, exec_starts, strategy_returns, o_ticks>>

quarVars == <<q_paroled, q_last, q_add>>

scoreVars == <<score_in, score_out>>

engineVars == <<gpc, stock_data, sector_map, dispersion, kill_switch, sorted_secs,
               candidates, rejected>>

vars == <<stage, fsVars, writerVars, readerVars, stratVars, execVars, orchVars,
          quarVars, scoreVars, engineVars>>

(***************************************************************************)
(* write_json_contract, one action per statement of its try block          *)
(***************************************************************************)
\* The candidate lists a Strategy run may hand to the writer (candidates[:20],
\* already sorted by score).
CandLists ==
    {<<>>, <<Cand("RELIANCE", 80)>>, <<Cand("INFY", 90), Cand("RELIANCE", 80)>>}

\* lines 276-282: build the dict and the temp path.
WriteEnter(ks, cands) ==
    /\ wpc \in {"idle", "done", "killed"}
    /\ w_count < MaxWrites
    /\ w_count' = w_count + 1
    /\ w_contract' = Contract(ks, w_count + 1, cands)
    /\ w_prev' = signal_file
    /\ w_failed' = "none"
    /\ w_ret' = "none"
    /\ wpc' = "open_tmp"

\* A Strategy process calls write_json_contract (the caller is not modelled).
WriteBegin(ks, cands) ==
    /\ WriteEnter(ks, cands)
    /\ UNCHANGED <<stage, quarVars, scoreVars, engineVars, fsVars, readerVars, stratVars, execVars, orchVars>>

\* line 284: open(temp_file, "w") creates or truncates the temp file.
WriteOpenTmp ==
    /\ wpc = "open_tmp"
    /\ temp_file' = PartialFile(w_contract)
    /\ wpc' = "dump"
    /\ UNCHANGED <<stage, quarVars, scoreVars, engineVars, signal_file, w_contract, w_prev, w_failed, w_ret, w_count, readerVars, stratVars, execVars, orchVars>>

\* line 284: json.dump(contract, f, indent=4) and the close of the with block.
WriteDump ==
    /\ wpc = "dump"
    /\ temp_file' = CompleteFile(w_contract)
    /\ wpc' = "remove"
    /\ UNCHANGED <<stage, quarVars, scoreVars, engineVars, signal_file, w_contract, w_prev, w_failed, w_ret, w_count, readerVars, stratVars, execVars, orchVars>>

\* line 285: if os.path.exists(SIGNAL_FILE): os.remove(SIGNAL_FILE)
WriteRemove ==
    /\ wpc = "remove"
    /\ signal_file' = AbsentFile
    /\ wpc' = "rename"
    /\ UNCHANGED <<stage, quarVars, scoreVars, engineVars, temp_file, w_contract, w_prev, w_failed, w_ret, w_count, readerVars, stratVars, execVars, orchVars>>

\* line 286: os.rename(temp_file, SIGNAL_FILE)
WriteRename ==
    /\ wpc = "rename"
    /\ signal_file' = temp_file
    /\ temp_file' = AbsentFile
    /\ wpc' = "ok"
    /\ UNCHANGED <<stage, quarVars, scoreVars, engineVars, w_contract, w_prev, w_failed, w_ret, w_count, readerVars, stratVars, execVars, orchVars>>

\* lines 283-289: any statement of the try block may raise (OSError: disk
\* full, permission, locked file); control moves to the except clause.  A
\* failed open leaves the temp path as it was, a failed dump leaves it cut
\* short.
WriteIOError ==
    /\ wpc \in {"open_tmp", "dump", "remove", "rename"}
    /\ w_failed' = wpc
    /\ wpc' = "except"
    /\ UNCHANGED <<stage, quarVars, scoreVars, engineVars, fsVars, w_contract, w_prev, w_ret, w_count, readerVars, stratVars, execVars, orchVars>>

\* line 287 (print success) or line 289 (print failure); either way the
\* function falls off its end and returns None: nothing is re-raised.
WriteReturn ==
    /\ wpc \in {"ok", "except"}
    /\ w_ret' = "normal"
    /\ wpc' = "done"
    /\ UNCHANGED <<stage, quarVars, scoreVars, engineVars, fsVars, w_contract, w_prev, w_failed, w_count, readerVars, stratVars, execVars, orchVars>>

\* The process is killed (SIGKILL, power loss) between two statements.
WriteKill ==
    /\ wpc \in {"open_tmp", "dump", "remove", "rename", "ok", "except"}
    /\ wpc' = "killed"
    /\ UNCHANGED <<stage, quarVars, scoreVars, engineVars, fsVars, w_contract, w_prev, w_failed, w_ret, w_count, readerVars, stratVars, execVars, orchVars>>

(***************************************************************************)
(* load_signal of the Execution engine, as a concurrent reader             *)
(***************************************************************************)
\* line 109: os.path.exists(SIGNAL_FILE)
ReadExists ==
    /\ rpc \in {"idle", "done"}
    /\ r_count < MaxReads
    /\ r_count' = r_count + 1
    /\ IF signal_file.state = "absent"
       THEN rpc' = "done" /\ r_obs' = AbsentFile     \* return None, None
       ELSE rpc' = "open" /\ r_obs' = r_obs
    /\ UNCHANGED <<stage, quarVars, scoreVars, engineVars, fsVars, writerVars, stratVars, execVars, orchVars>>

\* lines 113-137: open + json.load; a missing file (removed since the exists
\* check) or a cut-short JSON text raises and is reported as corrupt.
ReadOpen ==
    /\ rpc = "open"
    /\ r_obs' = signal_file
    /\ rpc' = "done"
    /\ UNCHANGED <<stage, quarVars, scoreVars, engineVars, fsVars, writerVars, r_count, stratVars, execVars, orchVars>>

(***************************************************************************)
(* QuarantineStore of diamond_v17.2_main.py                                *)
(***************************************************************************)
\* A stored date string: one that strptime parses to a day, or a corrupt one.
Stored(d) == [valid |-> TRUE, day |-> d]
CorruptDate == [valid |-> FALSE, day |-> 0]

\* q_data[symbol] = value
DictSet(q, sym, v) == [k \in DOMAIN q \cup {sym} |-> IF k = sym THEN v ELSE q[k]]

\* del q_data[symbol]
DictDel_Redated(q, sym) ==
    [k \in DOMAIN q |-> IF k = sym THEN Stored(q[k].day + 1) ELSE q[k]]

DictDel(q, sym) == [k \in DOMAIN q \ {sym} |-> q[k]]

\* lines 62-68: the parole branch of is_quarantined is taken.
ParoleDue(sym, q, t) ==
    /\ sym \in DOMAIN q
    /\ q[sym].valid
    /\ t - q[sym].day >= QUARANTINE_DAYS

\* is_quarantined with a date that does not parse keeping the symbol jailed.
is_quarantined_FailClosed(sym, q, t) ==
    IF sym \notin DOMAIN q THEN FALSE
    ELSE IF ~q[sym].valid THEN TRUE
    ELSE IF t - q[sym].day >= QUARANTINE_DAYS THEN FALSE
    ELSE TRUE

\* is_quarantined's return value.
is_quarantined(sym, q, t) ==
    IF sym \notin DOMAIN q THEN FALSE
    ELSE IF ~q[sym].valid THEN FALSE            \* strptime raised: release
    ELSE IF t - q[sym].day >= QUARANTINE_DAYS THEN FALSE
    ELSE TRUE

\* line 338: the list comprehension over raw_symbols, threading q_data
\* through the calls.  Yields the kept symbols, the dict after the calls and
\* the number of save_quarantine calls made.
RECURSIVE FilterUniverse(_, _, _)
FilterUniverse(raw, q, t) ==
    IF raw = << >> THEN [symbols |-> << >>, q_data |-> q, saves |-> 0]
    ELSE LET sym == Head(raw)
             due == ParoleDue(sym, q, t)
             keep == ~is_quarantined(sym, q, t)
             rest == FilterUniverse(Tail(raw), IF due THEN DictDel(q, sym) ELSE q, t)
         IN [symbols |-> IF keep THEN <<sym>> \o rest.symbols ELSE rest.symbols,
             q_data |-> rest.q_data,
             saves |-> rest.saves + (IF due THEN 1 ELSE 0)]

(***************************************************************************)
(* FailureCircuitBreaker of diamond_v17.2_main.py (lines 365-379)          *)
(***************************************************************************)
\* fail_rate > MAX_FAILURE_RATE, with fail_rate = failed / attempted.  The
\* float quotient compares with 0.15 exactly as the rational does (checked
\* for every attempted < 3000).
RateAboveMax_OrEqual(failed, attempted) == failed * 100 >= MAX_FAILURE_RATE_PCT * attempted

RateAboveMax(failed, attempted) == failed * 100 > MAX_FAILURE_RATE_PCT * attempted

\* fail_rate < FUNDAMENTAL_ABORT
RateBelowFundamental(failed, attempted) == failed * 100 < FUNDAMENTAL_ABORT_PCT * attempted

\* The branch main takes at lines 369-379.
BreakerDecision_NoAbort(failed, attempted) ==
    IF RateBelowFundamental(failed, attempted) THEN "refresh" ELSE "skip"

BreakerDecision(failed, attempted) ==
    IF RateAboveMax(failed, attempted) THEN "abort"
    ELSE IF RateBelowFundamental(failed, attempted) THEN "refresh"
    ELSE "skip"

(***************************************************************************)
(* The v17.2 Strategy run: main of diamond_v17.2_main.py                   *)
(***************************************************************************)
\* main returns (normally) or an exception leaves it.
StratEnd(how) ==
    /\ spc' = "done"
    /\ s_ret' = how

\* line 313: the process starts.
StratStart ==
    /\ stage = "strategy"
    /\ spc = "idle"
    /\ spc' = "probe"
    /\ s_signal0' = signal_file
    /\ UNCHANGED <<today, q_file, q_data, raw_symbols, symbols, failures, decision,
                   alerts, writes, fetches, s_probe, s_ret>>
    /\ UNCHANGED <<stage, quarVars, scoreVars, engineVars, fsVars, writerVars, readerVars, execVars, orchVars>>

\* line 317: if not check_market_health(): return
\* The position that follows the probe.
StratProbeGate_Ignored(ok) == "load_q"

StratProbeGate(ok) == IF ok THEN "load_q" ELSE "done"

\* lines 316-317: the health probe.
StratProbe(ok) ==
    /\ spc = "probe"
    /\ s_probe' = IF ok THEN "ok" ELSE "failed"
    /\ spc' = StratProbeGate(ok)
    /\ s_ret' = IF StratProbeGate(ok) = "done" THEN "normal" ELSE s_ret
    /\ UNCHANGED <<today, q_file, q_data, raw_symbols, symbols, failures, decision,
                   alerts, writes, fetches, s_signal0>>
    /\ UNCHANGED <<stage, quarVars, scoreVars, engineVars, fsVars, writerVars, readerVars, execVars, orchVars>>

\* lines 320-325: load_quarantine, fetch_nifty_trend, fetch_delivery_data
\* (both fetches swallow their errors).
StratContext ==
    /\ spc = "load_q"
    /\ q_data' = q_file
    /\ fetches' = fetches + 2
    /\ spc' = "universe"
    /\ UNCHANGED <<today, q_file, raw_symbols, symbols, failures, decision,
                   alerts, writes, s_signal0, s_probe, s_ret>>
    /\ UNCHANGED <<stage, quarVars, scoreVars, engineVars, fsVars, writerVars, readerVars, execVars, orchVars>>

\* lines 328-335: the index list; on any error the run returns.
StratUniverse(ok, n) ==
    /\ spc = "universe"
    /\ fetches' = fetches + 1
    /\ IF ok
       THEN raw_symbols' = [i \in 1..n |-> i] /\ spc' = "filter" /\ s_ret' = s_ret
       ELSE raw_symbols' = raw_symbols /\ StratEnd("normal")
    /\ UNCHANGED <<today, q_file, q_data, symbols, failures, decision,
                   alerts, writes, s_signal0, s_probe>>
    /\ UNCHANGED <<stage, quarVars, scoreVars, engineVars, fsVars, writerVars, readerVars, execVars, orchVars>>

\* line 338: the quarantine filter.  Each parole calls save_quarantine inside
\* is_quarantined's try block: a save that raises is swallowed by the bare
\* except, leaving the file as it was (open failed) or emptied (open
\* truncated it and the dump failed; load_quarantine then reads {}).
StratFilter(save) ==
    /\ spc = "filter"
    /\ LET r == FilterUniverse(raw_symbols, q_data, today)
       IN /\ symbols' = r.symbols
          /\ q_data' = r.q_data
          /\ IF r.saves = 0 THEN save = "ok" /\ UNCHANGED <<q_file, writes>>
             ELSE CASE save = "ok" -> q_file' = r.q_data /\ writes' = Append(writes, "quarantine")
                    [] save = "failed" -> UNCHANGED <<q_file, writes>>
                    [] save = "truncated" -> q_file' = << >> /\ writes' = Append(writes, "quarantine")
    /\ spc' = "bulk"
    /\ UNCHANGED <<today, raw_symbols, failures, decision, alerts, fetches,
                   s_signal0, s_probe, s_ret>>
    /\ UNCHANGED <<stage, quarVars, scoreVars, engineVars, fsVars, writerVars, readerVars, execVars, orchVars>>

\* lines 343-363: the bulk download and the per-symbol loop that counts the
\* missing or short frames; f of the symbols fail.
StratBulk(f) ==
    /\ spc = "bulk"
    /\ f \in 0..Len(symbols)
    /\ fetches' = fetches + 1
    /\ failures' = f
    /\ spc' = "breaker"
    /\ UNCHANGED <<today, q_file, q_data, raw_symbols, symbols, decision, alerts,
                   writes, s_signal0, s_probe, s_ret>>
    /\ UNCHANGED <<stage, quarVars, scoreVars, engineVars, fsVars, writerVars, readerVars, execVars, orchVars>>

\* line 343: yf.download is outside any try block; its exception leaves main.
StratBulkRaises ==
    /\ spc = "bulk"
    /\ fetches' = fetches + 1
    /\ StratEnd("raised")
    /\ UNCHANGED <<today, q_file, q_data, raw_symbols, symbols, failures, decision,
                   alerts, writes, s_signal0, s_probe>>
    /\ UNCHANGED <<stage, quarVars, scoreVars, engineVars, fsVars, writerVars, readerVars, execVars, orchVars>>

\* lines 365-379: fail_rate and the circuit breaker.  An empty universe makes
\* the division raise ZeroDivisionError.  On abort: one send_msg, return.
\* On refresh: update_fundamentals_batch, which fetches and rewrites
\* CACHE_FILE when some symbol is absent or stale ("stale"), does neither
\* when none is ("fresh"), and lets a failed open of CACHE_FILE for writing
\* leave main ("raises").  Otherwise load_existing_cache, which only reads.
StratBreaker(cache) ==
    /\ spc = "breaker"
    /\ IF Len(symbols) = 0
       THEN /\ cache = "fresh"
            /\ StratEnd("raised")
            /\ UNCHANGED <<decision, alerts, writes, fetches>>
       ELSE LET d == BreakerDecision(failures, Len(symbols))
            IN /\ decision' = d
               /\ CASE d = "abort" ->
                         /\ cache = "fresh"
                         /\ alerts' = alerts + 1
                         /\ StratEnd("normal")
                         /\ UNCHANGED <<writes, fetches>>
                    [] d = "refresh" ->
                         /\ fetches' = IF cache = "fresh" THEN fetches ELSE fetches + 1
                         /\ writes' = IF cache = "stale" THEN Append(writes, "cache") ELSE writes
                         /\ IF cache = "raises"
                            THEN StratEnd("raised")
                            ELSE spc' = "process" /\ s_ret' = s_ret
                         /\ UNCHANGED alerts
                    [] d = "skip" ->
                         /\ cache = "fresh"
                         /\ spc' = "process"
                         /\ UNCHANGED <<alerts, writes, fetches, s_ret>>
    /\ UNCHANGED <<today, q_file, q_data, raw_symbols, symbols, failures,
                   s_signal0, s_probe>>
    /\ UNCHANGED <<stage, quarVars, scoreVars, engineVars, fsVars, writerVars, readerVars, execVars, orchVars>>

\* lines 381-402: processing, calculate_sector_metrics and log_sector_regime,
\* which appends one row to REGIME_LOG.
StratGovernance ==
    /\ spc = "process"
    /\ writes' = Append(writes, "regime")
    /\ spc' = "score"
    /\ UNCHANGED <<today, q_file, q_data, raw_symbols, symbols, failures, decision,
                   alerts, fetches, s_signal0, s_probe, s_ret>>
    /\ UNCHANGED <<stage, quarVars, scoreVars, engineVars, fsVars, writerVars, readerVars, execVars, orchVars>>

\* lines 404-419: scoring, the sort and log_audit_trail, which appends the
\* rejected rows to AUDIT_LOG.
StratScore ==
    /\ spc = "score"
    /\ writes' = Append(writes, "audit")
    /\ spc' = "write"
    /\ UNCHANGED <<today, q_file, q_data, raw_symbols, symbols, failures, decision,
                   alerts, fetches, s_signal0, s_probe, s_ret>>
    /\ UNCHANGED <<stage, quarVars, scoreVars, engineVars, fsVars, writerVars, readerVars, execVars, orchVars>>

\* lines 304, 293: opening REGIME_LOG or AUDIT_LOG for append is outside any
\* try block; an OSError leaves main.
StratLogRaises ==
    /\ spc \in {"process", "score"}
    /\ StratEnd("raised")
    /\ UNCHANGED <<today, q_file, q_data, raw_symbols, symbols, failures, decision,
                   alerts, writes, fetches, s_signal0, s_probe>>
    /\ UNCHANGED <<stage, quarVars, scoreVars, engineVars, fsVars, writerVars, readerVars, execVars, orchVars>>

\* lines 420-423: write_json_contract(meta, candidates[:20]); the candidates
\* come from the symbols whose frames were fetched.
StratCallWrite(ks, cands) ==
    /\ spc = "write"
    /\ Len(cands) <= Len(symbols) - failures
    /\ WriteEnter(ks, cands)
    /\ spc' = "writing"
    /\ UNCHANGED <<today, q_file, q_data, raw_symbols, symbols, failures, decision,
                   alerts, writes, fetches, s_signal0, s_probe, s_ret>>
    /\ UNCHANGED <<stage, quarVars, scoreVars, engineVars, fsVars, readerVars, execVars, orchVars>>

\* line 425: write_json_contract has returned; main prints and returns.
StratReturn ==
    /\ spc = "writing"
    /\ wpc = "done"
    /\ StratEnd("normal")
    /\ UNCHANGED <<today, q_file, q_data, raw_symbols, symbols, failures, decision,
                   alerts, writes, fetches, s_signal0, s_probe>>
    /\ UNCHANGED <<stage, quarVars, scoreVars, engineVars, fsVars, writerVars, readerVars, execVars, orchVars>>

(***************************************************************************)
(* calculate_score of diamond_v17.2_main.py (diamond_v17_main.py has the   *)
(* same function, lines 211-256)                                           *)
(***************************************************************************)
\* What .iloc[-1] of an indicator series gives: a number, NaN, or nothing
\* at all (the ta function returned None, so the access raises).
Num(v) == [k |-> "num", v |-> v]
NaN == [k |-> "nan", v |-> 0]
Undef == [k |-> "undef", v |-> 0]

\* Float comparisons: any comparison with NaN is false.
Gt(a, b) == a.k = "num" /\ b.k = "num" /\ a.v > b.v
Ge(a, b) == a.k = "num" /\ b.k = "num" /\ a.v >= b.v
Le(a, b) == a.k = "num" /\ b.k = "num" /\ a.v <= b.v

\* int(x / y) for y > 0: the quotient truncated toward zero.
TruncDiv(x, y) == IF x >= 0 THEN x \div y ELSE -((-x) \div y)

\* lines 237-239: the technical sub-score.  The test is the chain
\* price > ema20 > ema50 > ema200.
TechnicalScore_AboveAllThree(price, ema20, ema50, ema200, rsi) ==
    IF Gt(price, ema20) /\ Gt(price, ema50) /\ Gt(price, ema200)
    THEN (IF Le(Num(55), rsi) /\ Le(rsi, Num(70)) THEN 100 ELSE 90)
    ELSE IF Gt(price, ema50) THEN 60
    ELSE 20

TechnicalScore(price, ema20, ema50, ema200, rsi) ==
    IF Gt(price, ema20) /\ Gt(ema20, ema50) /\ Gt(ema50, ema200)
    THEN (IF Le(Num(55), rsi) /\ Le(rsi, Num(70)) THEN 100 ELSE 90)
    ELSE IF Gt(price, ema50) THEN 60
    ELSE 20

\* line 242: min(100, int((avg_delivery.get(symbol, 30.0) / 60) * 100)).
\* For whole percentages the float product truncates to the exact quotient
\* wherever it is below the cap (checked for 0..200).
DeliveryScore_Uncapped(delivery) ==
    TruncDiv((IF delivery.known THEN delivery.v ELSE 30) * 100, 60)

DeliveryScore(delivery) ==
    LET d == TruncDiv((IF delivery.known THEN delivery.v ELSE 30) * 100, 60)
    IN IF d < 100 THEN d ELSE 100

\* line 245: sector_map.get(fund.get('sector', 'Unknown'), 50)
SectorSubScore(map, sector) == IF sector \in DOMAIN map THEN map[sector] ELSE 50

\* line 249
AlphaScore(alpha_bps) ==
    IF alpha_bps > 300 THEN 100 ELSE IF alpha_bps > 100 THEN 80
    ELSE IF alpha_bps > 0 THEN 60 ELSE 30

\* line 253
FundamentalScore(pe) == IF 0 < pe /\ pe < 30 THEN 100 ELSE IF pe < 60 THEN 70 ELSE 40

\* line 257
SolvencyScore(de) == IF de <= 50 THEN 100 ELSE IF de <= 150 THEN 70 ELSE 30

\* lines 233, 260: volatility = atr / price compared with 0.02 and 0.04
\* (price > 0); a NaN volatility fails both comparisons.
BetaScore(atr, price) ==
    IF atr.k = "num" /\ atr.v * 100 < 2 * price.v THEN 100
    ELSE IF atr.k = "num" /\ atr.v * 100 < 4 * price.v THEN 70
    ELSE 40

\* line 262: the weighted sum, in hundredths.
Blend(t, d, sc, a, f, solv, b) ==
    t * 25 + d * 20 + sc * 15 + a * 15 + f * 10 + solv * 10 + b * 5

\* line 225 and the try block of lines 229-234: the conditions under which
\* calculate_score returns None.  The try block raises only when a ta
\* function gave no series; a NaN or a zero ATR passes through it.
ScoreGivesNone(in) ==
    \/ in.bars < MIN_BARS_REQUIRED
    \/ \E x \in {in.rsi, in.ema20, in.ema50, in.ema200, in.atr} : x.k = "undef"

\* return None
NoneResult == [kind |-> "none"]

\* line 242: avg_delivery.get(symbol, 30.0) is NaN (fetch_delivery_data
\* coerces a DELIV_PER that is not a number to NaN, line 144) and int() of
\* a NaN raises ValueError, outside the try block.
ScoreRaises(in) == in.delivery.known /\ in.delivery.nan

RaiseResult == [kind |-> "raise"]

\* lines 224-269: calculate_score, with the sub-scores kept in the result.
\* int(final) equals the exact truncation of the sum for every combination
\* of sub-scores in 0..100 (checked exhaustively).
calculate_score(in) ==
    IF ScoreGivesNone(in) THEN NoneResult
    ELSE IF ScoreRaises(in) THEN RaiseResult
    ELSE LET t == TechnicalScore(in.price, in.ema20, in.ema50, in.ema200, in.rsi)
             d == DeliveryScore(in.delivery)
             sc == SectorSubScore(in.sector_map, in.sector)
             a == AlphaScore(in.alpha_bps)
             f == FundamentalScore(in.pe)
             solv == SolvencyScore(in.de)
             b == BetaScore(in.atr, in.price)
         IN [kind |-> "candidate", symbol |-> in.symbol, sector |-> in.sector,
             score |-> TruncDiv(Blend(t, d, sc, a, f, solv, b), 100),
             t |-> t, d |-> d, s |-> sc, a |-> a, f |-> f, solv |-> solv, b |-> b]

\* One call of calculate_score on the arguments of score_in.
ScoreCall ==
    /\ stage = "score"
    /\ score_in.given
    /\ score_out.kind = "not_called"
    /\ score_out' = calculate_score(score_in)
    /\ UNCHANGED <<stage, quarVars, score_in, engineVars, fsVars, writerVars, readerVars,
                   stratVars, execVars, orchVars>>

(***************************************************************************)
(* calculate_sector_metrics of diamond_v17.2_main.py (diamond_v17_main.py  *)
(* has the same function, lines 188-209)                                   *)
(***************************************************************************)
\* lines 207-210: the keys of sector_perf, in the order of first appearance
\* (a dict keeps insertion order).
SectorsOf(data) ==
    LET first == {i \in 1..Len(data) : \A j \in 1..(i - 1) : data[j].sector # data[i].sector}
        at(k) == CHOOSE i \in first : Cardinality({j \in first : j <= i}) = k
    IN [k \in 1..Cardinality(first) |-> data[at(k)].sector]

\* lines 207-210: sector_perf[sec], the perf_10d values of the sector's items.
PerfsOf(data, sec) ==
    LET mine == SelectSeq(data, LAMBDA item : item.sector = sec)
    IN [i \in 1..Len(mine) |-> mine[i].perf_10d]

\* sorted(values), ascending.
RECURSIVE SortedInts(_)
SortedInts(vals) ==
    IF vals = << >> THEN << >>
    ELSE LET front == SortedInts(SubSeq(vals, 1, Len(vals) - 1))
             x == vals[Len(vals)]
             k == Cardinality({i \in 1..Len(front) : front[i] <= x})
         IN SubSeq(front, 1, k) \o <<x>> \o SubSeq(front, k + 1, Len(front))

\* statistics.median, doubled to stay an integer: the middle value, or the
\* mean of the two middle values.
Median2(vals) ==
    LET sorted == SortedInts(vals)
        n == Len(sorted)
    IN IF n % 2 = 1 THEN 2 * sorted[(n + 1) \div 2]
       ELSE sorted[n \div 2] + sorted[n \div 2 + 1]

\* line 212: len(v) >= MIN_SECTOR_SIZE
HasBreadth_Strict(n) == n > MIN_SECTOR_SIZE

HasBreadth(n) == n >= MIN_SECTOR_SIZE

\* line 212: medians, as the list of its items in dict order.
Medians(data) ==
    LET secs == SelectSeq(SectorsOf(data), LAMBDA sec : HasBreadth(Len(PerfsOf(data, sec))))
    IN [i \in 1..Len(secs) |-> [sector |-> secs[i], median2 |-> Median2(PerfsOf(data, secs[i]))]]

\* line 215: sorted(medians.items(), key=median, reverse=True): stable, so
\* sectors with equal medians keep their dict order.
InsertByMedian(sorted, x) ==
    LET k == Cardinality({i \in 1..Len(sorted) : sorted[i].median2 >= x.median2})
    IN SubSeq(sorted, 1, k) \o <<x>> \o SubSeq(sorted, k + 1, Len(sorted))

RECURSIVE SortByMedian(_)
SortByMedian(seq) ==
    IF seq = << >> THEN << >>
    ELSE InsertByMedian(SortByMedian(SubSeq(seq, 1, Len(seq) - 1)), seq[Len(seq)])

\* line 218: the pairs (i, n), n <= 20, for which the float product
\* (1 - i / n) * 100 falls just below the whole number it stands for, so
\* that int() gives one less (int((1 - 4/5) * 100) is 19).
FloatShortfall ==
    {<<4, 5>>, <<8, 10>>, <<9, 10>>, <<12, 15>>, <<11, 20>>, <<16, 20>>, <<18, 20>>}

\* line 218: int((1 - (i / max(len(sorted_secs), 1))) * 100), as the floats
\* give it (computed for every i < n <= 20).
SectorScore_OutOfTen(i, n) ==
    ((n - i) * 10) \div n - (IF <<i, n>> \in FloatShortfall THEN 1 ELSE 0)

SectorScore(i, n) ==
    ((n - i) * 100) \div n - (IF <<i, n>> \in FloatShortfall THEN 1 ELSE 0)

\* lines 216-218: scores, sector -> score.
SectorScores(ranking) ==
    [sec \in {ranking[i].sector : i \in 1..Len(ranking)} |->
        SectorScore((CHOOSE i \in 1..Len(ranking) : ranking[i].sector = sec) - 1, Len(ranking))]

RECURSIVE SumSeq(_)
SumSeq(vals) == IF vals = << >> THEN 0 ELSE Head(vals) + SumSeq(Tail(vals))

\* lines 220-221: stdev(vals) if len(vals) > 1 else 0, kept as its square,
\* the sample variance, a fraction: (n * sum(x^2) - sum(x)^2) / (n * (n - 1)).
Dispersion2(ranking) ==
    LET n == Len(ranking)
        vals == [i \in 1..n |-> SectorScore(i - 1, n)]
        squares == [i \in 1..n |-> vals[i] * vals[i]]
    IN IF n > 1
       THEN [num |-> n * SumSeq(squares) - SumSeq(vals) * SumSeq(vals), den |-> n * (n - 1)]
       ELSE [num |-> 0, den |-> 1]

\* lines 206-222: calculate_sector_metrics; with no sector of enough
\* breadth it returns ({}, 0.0).
calculate_sector_metrics(data) ==
    LET ranking == SortByMedian(Medians(data))
    IN [ranking |-> ranking, scores |-> SectorScores(ranking), dispersion |-> Dispersion2(ranking)]

\* line 401: kill_switch = dispersion < DISPERSION_THRESHOLD, on the squares
\* (neither side is negative).
KillSwitch_Inverted(d) == d.num > DISPERSION_THRESHOLD * DISPERSION_THRESHOLD * d.den

KillSwitch(d) == d.num < DISPERSION_THRESHOLD * DISPERSION_THRESHOLD * d.den

(***************************************************************************)
(* Helpers of diamond_v16_1_execution_engine.py                            *)
(***************************************************************************)
\* line 46: strftime("%Y%m%d_%H%M") keeps the date and the minute and drops
\* the seconds.
generate_run_id(c) == <<c.date, c.minute>>

\* The header row of the worksheet, one label per column.
Header == <<0, "Symbol", 0, "Protocol", <<0, 0>>>>

\* lines 89, 94: f"{row[0]}|{row[1]}|{row[-1]}" (the last cell is the run id)
RowKey_DateSymbol(row) == <<row[1], row[2]>>

RowKey(row) == <<row[1], row[2], row[Len(row)]>>

\* lines 83-90: the keys of the rows after the first, short rows skipped.
ExistingSet(existing_data) ==
    {RowKey(existing_data[i]) :
        i \in {j \in 2..Len(existing_data) : Len(existing_data[j]) >= 3}}

\* lines 92-98: the loop over rows_to_add.
RECURSIVE UniqueRows(_, _)
UniqueRows(rows_to_add, existing_set) ==
    IF rows_to_add = << >> THEN << >>
    ELSE LET row == Head(rows_to_add)
             rest == UniqueRows(Tail(rows_to_add), existing_set)
         IN IF RowKey(row) \notin existing_set THEN <<row>> \o rest ELSE rest

\* lines 76-103: ok is whether worksheet.get_all_values() returned; if it
\* raised, the except clause returns rows_to_add.
check_sheets_idempotency_FailClosed(rows_to_add, existing_data, ok) ==
    IF ok THEN UniqueRows(rows_to_add, ExistingSet(existing_data)) ELSE << >>

check_sheets_idempotency(rows_to_add, existing_data, ok) ==
    IF ok THEN UniqueRows(rows_to_add, ExistingSet(existing_data)) ELSE rows_to_add

\* list.sort(key=score, reverse=True): stable, descending.
InsertByScore(sorted, x) ==
    LET k == Cardinality({i \in 1..Len(sorted) : sorted[i].score >= x.score})
    IN SubSeq(sorted, 1, k) \o <<x>> \o SubSeq(sorted, k + 1, Len(sorted))

RECURSIVE SortByScore(_)
SortByScore(seq) ==
    IF seq = << >> THEN << >>
    ELSE InsertByScore(SortByScore(SubSeq(seq, 1, Len(seq) - 1)), seq[Len(seq)])

\* lines 108-137: load_signal.  A missing file, or one whose JSON does not
\* parse, gives (None, None).
load_signal(file) ==
    IF file.state = "complete"
    THEN [ok |-> TRUE, meta |-> file.body.meta, universe |-> SortByScore(file.body.universe)]
    ELSE [ok |-> FALSE, meta |-> EmptyBody.meta, universe |-> << >>]

\* A live frame of one symbol, as the values the loop and refine_trade read
\* from it: whether hist has a non-empty frame for the symbol, len(df), the
\* last close, and the last values of ta.ema(close, 50) and ta.atr(...).
\* Prices are in hundredths; Undef stands for a ta function that gave no
\* series; bad_close for a last close that float() cannot convert.
Frame(bars, price, ema50, atr) ==
    [present |-> bars > 0, bars |-> bars, price |-> price, ema50 |-> ema50, atr |-> atr,
     bad_close |-> FALSE]

\* round(x, 1) of a value in hundredths (x >= 0).
Round1(x) ==
    LET q == x \div 10
        r == x % 10
    IN 10 * (IF r < 5 \/ (r = 5 /\ q % 2 = 0) THEN q ELSE q + 1)

\* line 156: live_price < ema50 (a NaN ema50 fails the comparison)
TrendBroken_OrEqual(price, ema50) == ema50.k = "num" /\ price <= ema50.v

TrendBroken(price, ema50) == ema50.k = "num" /\ price < ema50.v

\* refine_trade returned None, or raised (line 146, outside its try block).
NotRefined == [ok |-> FALSE, raised |-> FALSE, price |-> 0, sl |-> 0, tgt |-> 0]
RefineRaised == [ok |-> FALSE, raised |-> TRUE, price |-> 0, sl |-> 0, tgt |-> 0]

\* lines 142-161: refine_trade
refine_trade(df) ==
    IF df.bars < EXEC_MIN_BARS_REQUIRED THEN NotRefined
    ELSE IF df.bad_close THEN RefineRaised
    ELSE IF df.ema50.k = "undef" \/ df.atr.k = "undef" THEN NotRefined
    ELSE IF df.atr.k = "nan" \/ df.atr.v <= 0 THEN NotRefined
    ELSE IF TrendBroken(df.price, df.ema50) THEN NotRefined
    ELSE [ok |-> TRUE, raised |-> FALSE, price |-> df.price,
          sl |-> Round1(df.price - 2 * df.atr.v),
          tgt |-> Round1(df.price + (7 * df.atr.v) \div 2)]

\* lines 231-235: the price, stop-loss and target of a setup.
SetupLevels_Stored(u, refined) ==
    IF "price" \in DOMAIN u THEN [price |-> u.price, sl |-> u.sl, tgt |-> u.tgt]
    ELSE [price |-> refined.price, sl |-> refined.sl, tgt |-> refined.tgt]

SetupLevels(u, refined) == [price |-> refined.price, sl |-> refined.sl, tgt |-> refined.tgt]

\* lines 205-246: the refinement loop.  A symbol without a frame, or with an
\* empty one, is skipped (lines 213-221), as is one for which refine_trade
\* returned None (line 225) or raised (line 246: except Exception: continue).
RECURSIVE RefineAll(_, _, _, _, _)
RefineAll(universe, live, protocol, date, rid) ==
    IF universe = << >> THEN [setups |-> << >>, rows |-> << >>]
    ELSE LET u == Head(universe)
             rest == RefineAll(Tail(universe), live, protocol, date, rid)
             refined == IF live[u.symbol].present THEN refine_trade(live[u.symbol]) ELSE NotRefined
             lv == SetupLevels(u, refined)
         IN IF refined.ok
            THEN [setups |-> <<[symbol |-> u.symbol, score |-> u.score, price |-> lv.price,
                                sl |-> lv.sl, tgt |-> lv.tgt, protocol |-> protocol]>>
                                \o rest.setups,
                  rows |-> <<<<date, u.symbol, u.score, lv.price, lv.sl, lv.tgt, protocol, rid>>>>
                                \o rest.rows]
            ELSE rest

\* line 183: max_display = 2 if kill_switch else 5
MaxDisplay(ks) == IF ks THEN 2 ELSE 5

(***************************************************************************)
(* The logic engine of a Strategy run: main of diamond_v17.2_main.py from  *)
(* the governance step on (lines 398-425), over explicit processed_data    *)
(***************************************************************************)
\* The arguments of calculate_score for one item (line 408): the item's
\* frame, delivery percentage and sector, and the run's sector_map.
ItemInput(item, map) ==
    [given |-> TRUE, symbol |-> item.symbol, bars |-> item.bars, price |-> Num(100),
     ema20 |-> Num(90), ema50 |-> Num(80), ema200 |-> Num(70), rsi |-> Num(60),
     atr |-> Num(1), delivery |-> item.delivery, sector_map |-> map,
     sector |-> item.sector, alpha_bps |-> 400, pe |-> 20, de |-> 50]

\* lines 407-414: the items the scoring loop gets through: all of them, or
\* those before the first one for which calculate_score raises (the loop
\* has no try block).
ScoredPrefix(data, map) ==
    LET raising == {i \in 1..Len(data) : calculate_score(ItemInput(data[i], map)).kind = "raise"}
    IN IF raising = {} THEN data
       ELSE SubSeq(data, 1, (CHOOSE i \in raising : \A j \in raising : i <= j) - 1)

\* lines 407-414: the results of the scoring loop, None results skipped.
ScoreAll(data, map) ==
    SelectSeq([i \in 1..Len(data) |-> calculate_score(ItemInput(data[i], map))],
              LAMBDA res : res.kind = "candidate")

\* line 423: candidates[:20]
TopCandidates_All(c) == c

TopCandidates(c) == SubSeq(c, 1, IF Len(c) < 20 THEN Len(c) ELSE 20)

\* The keys of a candidate that load_signal requires.
AsCands(c) == [i \in 1..Len(c) |-> Cand(c[i].symbol, c[i].score)]

\* lines 398-402: calculate_sector_metrics, log_sector_regime (one row
\* appended to REGIME_LOG), kill_switch and protocol.
EngineGovernance ==
    /\ stage = "engine"
    /\ gpc = "governance"
    /\ LET m == calculate_sector_metrics(stock_data)
       IN /\ sorted_secs' = m.ranking
          /\ sector_map' = m.scores
          /\ dispersion' = m.dispersion
          /\ kill_switch' = KillSwitch(m.dispersion)
    /\ writes' = Append(writes, "regime")
    /\ gpc' = "score"
    /\ UNCHANGED <<stock_data, candidates, rejected>>
    /\ UNCHANGED <<spc, today, q_file, q_data, raw_symbols, symbols, failures, decision,
                   alerts, fetches, s_signal0, s_probe, s_ret>>
    /\ UNCHANGED <<stage, quarVars, scoreVars, fsVars, writerVars, readerVars, execVars, orchVars>>

\* line 411: res["score"] > SCORE_THRESHOLD
AboveThreshold_OrEqual(score) == score >= SCORE_THRESHOLD

AboveThreshold(score) == score > SCORE_THRESHOLD

\* line 414: the entry of rejected for a result at or below the threshold.
Rejection(res) ==
    [symbol |-> res.symbol, score |-> res.score, reason |-> "Low Score", sector |-> res.sector]

\* lines 404-414: the scoring loop; a result above SCORE_THRESHOLD is a
\* candidate, any other one is rejected.  If calculate_score raises, main
\* raises: the run ends there, before the audit trail and the contract.
EngineScore ==
    /\ stage = "engine"
    /\ gpc = "score"
    /\ LET through == ScoredPrefix(stock_data, sector_map)
           results == ScoreAll(through, sector_map)
       IN /\ gpc' = IF through = stock_data THEN "sort" ELSE "raised"
          /\ candidates' = SelectSeq(results, LAMBDA res : AboveThreshold(res.score))
          /\ rejected' = LET low == SelectSeq(results, LAMBDA res : ~AboveThreshold(res.score))
                          IN [i \in 1..Len(low) |-> Rejection(low[i])]
    /\ UNCHANGED <<stock_data, sector_map, dispersion, kill_switch, sorted_secs>>
    /\ UNCHANGED <<spc, writes, today, q_file, q_data, raw_symbols, symbols, failures, decision,
                   alerts, fetches, s_signal0, s_probe, s_ret>>
    /\ UNCHANGED <<stage, quarVars, scoreVars, fsVars, writerVars, readerVars, execVars, orchVars>>

\* lines 416-419: candidates.sort(key=score, reverse=True), then
\* log_audit_trail(rejected), which appends to AUDIT_LOG.
EngineSort ==
    /\ stage = "engine"
    /\ gpc = "sort"
    /\ candidates' = SortByScore(candidates)
    /\ writes' = Append(writes, "audit")
    /\ gpc' = "write"
    /\ UNCHANGED <<stock_data, sector_map, dispersion, kill_switch, sorted_secs, rejected>>
    /\ UNCHANGED <<spc, today, q_file, q_data, raw_symbols, symbols, failures, decision,
                   alerts, fetches, s_signal0, s_probe, s_ret>>
    /\ UNCHANGED <<stage, quarVars, scoreVars, fsVars, writerVars, readerVars, execVars, orchVars>>

\* lines 420-423: write_json_contract(meta, candidates[:20]), with the
\* run's kill_switch and protocol in meta.
EngineCallWrite ==
    /\ stage = "engine"
    /\ gpc = "write"
    /\ WriteEnter(kill_switch, AsCands(TopCandidates(candidates)))
    /\ gpc' = "writing"
    /\ UNCHANGED <<stock_data, sector_map, dispersion, kill_switch, sorted_secs,
                   candidates, rejected>>
    /\ UNCHANGED <<stage, quarVars, scoreVars, fsVars, readerVars, stratVars, execVars, orchVars>>

\* line 425: write_json_contract has returned; main prints and returns.
EngineReturn ==
    /\ stage = "engine"
    /\ gpc = "writing"
    /\ wpc = "done"
    /\ gpc' = "done"
    /\ UNCHANGED <<stock_data, sector_map, dispersion, kill_switch, sorted_secs,
                   candidates, rejected>>
    /\ UNCHANGED <<stage, quarVars, scoreVars, fsVars, writerVars, readerVars, stratVars,
                   execVars, orchVars>>

(***************************************************************************)
(* The Execution run: main of diamond_v16_1_execution_engine.py            *)
(***************************************************************************)
NoGate == [input |-> << >>, sheet |-> << >>, ok |-> TRUE, output |-> << >>, ran |-> FALSE]

ExecEnd(how) ==
    /\ epc' = "done"
    /\ e_ret' = how

\* lines 166-168: the process starts and takes its run id.
ExecStart ==
    /\ stage = "execution"
    /\ epc = "idle"
    /\ e_runs < MaxExecRuns
    /\ e_runs' = e_runs + 1
    /\ run_id' = generate_run_id(clock)
    /\ epc' = "probe"
    /\ UNCHANGED <<clock, e_probe, e_meta, e_universe, executable_setups, sheet_rows,
                   e_gate, e_alerts, e_hist, e_shown, e_fetches, e_appends, worksheet, lookups_ok, e_ret>>
    /\ UNCHANGED <<stage, quarVars, scoreVars, engineVars, fsVars, writerVars, readerVars, stratVars, orchVars>>

\* lines 172-173: if not check_market_health(): return
\* The position that follows the probe.
ExecProbeGate(ok) == IF ok THEN "load" ELSE "done"

\* lines 170-173: the health probe.
ExecProbe(ok) ==
    /\ epc = "probe"
    /\ e_probe' = IF ok THEN "ok" ELSE "failed"
    /\ epc' = ExecProbeGate(ok)
    /\ e_ret' = IF ExecProbeGate(ok) = "done" THEN "normal" ELSE e_ret
    /\ UNCHANGED <<clock, run_id, e_meta, e_universe, executable_setups, sheet_rows,
                   e_gate, e_alerts, e_hist, e_shown, e_fetches, e_appends, worksheet, lookups_ok, e_runs>>
    /\ UNCHANGED <<stage, quarVars, scoreVars, engineVars, fsVars, writerVars, readerVars, stratVars, orchVars>>

\* lines 176-183: load the contract; return if there is none or it is empty.
ExecLoad ==
    /\ epc = "load"
    /\ LET l == load_signal(signal_file)
       IN IF l.ok /\ l.universe # << >>
          THEN /\ e_meta' = l.meta
               /\ e_universe' = l.universe
               /\ epc' = "fetch"
               /\ e_ret' = e_ret
          ELSE /\ UNCHANGED <<e_meta, e_universe>>
               /\ ExecEnd("normal")
    /\ UNCHANGED <<clock, run_id, e_probe, executable_setups, sheet_rows,
                   e_gate, e_alerts, e_hist, e_shown, e_fetches, e_appends, worksheet, lookups_ok, e_runs>>
    /\ UNCHANGED <<stage, quarVars, scoreVars, engineVars, fsVars, writerVars, readerVars, stratVars, orchVars>>

\* lines 196-246: the bulk download (an exception is caught and the run
\* returns) and the refinement loop.
ExecRefine(ok, live) ==
    /\ epc = "fetch"
    /\ e_fetches' = e_fetches + 1
    /\ IF ok
       THEN LET r == RefineAll(e_universe, live, e_meta.protocol, clock.date, run_id)
            IN /\ executable_setups' = r.setups
               /\ sheet_rows' = r.rows
               /\ e_hist' = live
               /\ epc' = "report"
               /\ e_ret' = e_ret
       ELSE /\ UNCHANGED <<executable_setups, sheet_rows, e_hist>>
            /\ ExecEnd("normal")
    /\ UNCHANGED <<clock, run_id, e_probe, e_meta, e_universe,
                   e_gate, e_alerts, e_shown, e_appends, worksheet, lookups_ok, e_runs>>
    /\ UNCHANGED <<stage, quarVars, scoreVars, engineVars, fsVars, writerVars, readerVars, stratVars, orchVars>>

\* lines 251-280: return if nothing passed; else sort and send the message,
\* which lists executable_setups[:max_display].
ExecReport ==
    /\ epc = "report"
    /\ IF executable_setups = << >>
       THEN /\ ExecEnd("normal")
            /\ UNCHANGED <<executable_setups, e_alerts, e_shown>>
       ELSE /\ executable_setups' = SortByScore(executable_setups)
            /\ e_shown' = LET sorted == SortByScore(executable_setups)
                              n == MaxDisplay(e_meta.kill_switch)
                          IN SubSeq(sorted, 1, IF Len(sorted) < n THEN Len(sorted) ELSE n)
            /\ e_alerts' = e_alerts + 1
            /\ epc' = "push"
            /\ e_ret' = e_ret
    /\ UNCHANGED <<clock, run_id, e_probe, e_meta, e_universe, sheet_rows,
                   e_gate, e_hist, e_fetches, e_appends, worksheet, lookups_ok, e_runs>>
    /\ UNCHANGED <<stage, quarVars, scoreVars, engineVars, fsVars, writerVars, readerVars, stratVars, orchVars>>

\* lines 256-280: the sort or the formatting of the message raises (a
\* contract score that is not a number: load_signal checks only that the key
\* is there); nothing in main catches it.
ExecReportRaises ==
    /\ epc = "report"
    /\ executable_setups # << >>
    /\ ExecEnd("raised")
    /\ UNCHANGED <<clock, run_id, e_probe, e_meta, e_universe, executable_setups, sheet_rows,
                   e_gate, e_alerts, e_hist, e_shown, e_fetches, e_appends, worksheet,
                   lookups_ok, e_runs>>
    /\ UNCHANGED <<stage, quarVars, scoreVars, engineVars, fsVars, writerVars, readerVars, stratVars, orchVars>>

\* lines 285-303: the sheet push.  conn: the credentials are configured and
\* the worksheet opens; lookup: get_all_values returns; append: append_rows
\* returns.  Every exception is caught at line 302.
ExecPush(conn, lookup, append) ==
    /\ epc = "push"
    /\ IF conn
       THEN LET unique_rows == check_sheets_idempotency(sheet_rows, worksheet, lookup)
            IN /\ e_gate' = [input |-> sheet_rows, sheet |-> worksheet, ok |-> lookup,
                             output |-> unique_rows, ran |-> TRUE]
               /\ lookups_ok' = (lookups_ok /\ lookup)
               /\ IF unique_rows # << >> /\ append
                  THEN worksheet' = worksheet \o unique_rows /\ e_appends' = e_appends + 1
                  ELSE UNCHANGED <<worksheet, e_appends>>
       ELSE /\ lookup /\ append
            /\ UNCHANGED <<e_gate, lookups_ok, worksheet, e_appends>>
    /\ ExecEnd("normal")
    /\ UNCHANGED <<clock, run_id, e_probe, e_meta, e_universe, executable_setups,
                   sheet_rows, e_alerts, e_hist, e_shown, e_fetches, e_runs>>
    /\ UNCHANGED <<stage, quarVars, scoreVars, engineVars, fsVars, writerVars, readerVars, stratVars, orchVars>>

\* The process exits: its memory is gone, the worksheet and the clock
\* remain.  The next run starts within the same minute, a minute later or a
\* day later.
ExecExit(adv) ==
    /\ epc = "done"
    /\ epc' = "idle"
    /\ clock' = CASE adv = "same_minute" -> [clock EXCEPT !.sec = 30]
                  [] adv = "next_minute" -> [clock EXCEPT !.minute = @ + 1, !.sec = 0]
                  [] adv = "next_day" -> [clock EXCEPT !.date = @ + 1, !.sec = 0]
    /\ run_id' = <<0, 0>>
    /\ e_probe' = "none"
    /\ e_meta' = EmptyBody.meta
    /\ e_universe' = << >>
    /\ executable_setups' = << >>
    /\ sheet_rows' = << >>
    /\ e_gate' = NoGate
    /\ e_alerts' = 0
    /\ e_hist' = << >>
    /\ e_shown' = << >>
    /\ e_fetches' = 0
    /\ e_appends' = 0
    /\ e_ret' = "none"
    /\ UNCHANGED <<worksheet, lookups_ok, e_runs>>
    /\ UNCHANGED <<stage, quarVars, scoreVars, engineVars, fsVars, writerVars, readerVars, stratVars, orchVars>>

(***************************************************************************)
(* The v17.1 Strategy run: main of diamond_v17_main.py, the module that    *)
(* main.py imports and runs                                                *)
(***************************************************************************)
\* lines 263-292: market trend, index list (a fallback list on error),
\* delivery data, update_fundamentals (rewrites CACHE_FILE when a symbol is
\* new), the bulk download and the pre-processing loop, which skips the
\* symbols whose frame is missing or short: f of the n symbols.  There is no
\* health probe, no quarantine filter and no failure-rate check.
V171Fetch(n, f, stale) ==
    /\ spc = "v171_fetch"
    /\ f \in 0..n
    /\ symbols' = [i \in 1..n |-> i]
    /\ raw_symbols' = [i \in 1..n |-> i]
    /\ failures' = f
    /\ fetches' = fetches + 4
    /\ writes' = IF stale THEN Append(writes, "cache") ELSE writes
    /\ spc' = "v171_governance"
    /\ UNCHANGED <<today, q_file, q_data, decision, alerts, s_signal0, s_probe, s_ret>>
    /\ UNCHANGED <<stage, quarVars, scoreVars, engineVars, fsVars, writerVars, readerVars, execVars, orchVars>>

\* lines 273-274, 296, 326: the cache write, yf.download and the opening of
\* the two logs are outside any try block; an exception leaves main.
V171Raises ==
    /\ spc \in {"v171_fetch", "v171_governance", "v171_score"}
    /\ StratEnd("raised")
    /\ UNCHANGED <<today, q_file, q_data, raw_symbols, symbols, failures, decision,
                   alerts, writes, fetches, s_signal0, s_probe>>
    /\ UNCHANGED <<stage, quarVars, scoreVars, engineVars, fsVars, writerVars, readerVars, execVars, orchVars>>

\* lines 295-305: calculate_sector_metrics and log_sector_regime.
V171Governance ==
    /\ spc = "v171_governance"
    /\ writes' = Append(writes, "regime")
    /\ spc' = "v171_score"
    /\ UNCHANGED <<today, q_file, q_data, raw_symbols, symbols, failures, decision,
                   alerts, fetches, s_signal0, s_probe, s_ret>>
    /\ UNCHANGED <<stage, quarVars, scoreVars, engineVars, fsVars, writerVars, readerVars, execVars, orchVars>>

\* lines 308-326: scoring, the sort and log_audit_trail.
V171Score ==
    /\ spc = "v171_score"
    /\ writes' = Append(writes, "audit")
    /\ spc' = "v171_write"
    /\ UNCHANGED <<today, q_file, q_data, raw_symbols, symbols, failures, decision,
                   alerts, fetches, s_signal0, s_probe, s_ret>>
    /\ UNCHANGED <<stage, quarVars, scoreVars, engineVars, fsVars, writerVars, readerVars, execVars, orchVars>>

\* lines 327-333: write_json_contract(meta, candidates[:20]).
V171CallWrite(ks, cands) ==
    /\ spc = "v171_write"
    /\ Len(cands) <= Len(symbols) - failures
    /\ WriteEnter(ks, cands)
    /\ spc' = "v171_writing"
    /\ UNCHANGED <<today, q_file, q_data, raw_symbols, symbols, failures, decision,
                   alerts, writes, fetches, s_signal0, s_probe, s_ret>>
    /\ UNCHANGED <<stage, quarVars, scoreVars, engineVars, fsVars, readerVars, execVars, orchVars>>

\* lines 336-350: the report (one send_msg if there are candidates); main
\* returns.
V171Report ==
    /\ spc = "v171_writing"
    /\ wpc = "done"
    /\ alerts' = IF w_contract.universe # << >> THEN alerts + 1 ELSE alerts
    /\ StratEnd("normal")
    /\ UNCHANGED <<today, q_file, q_data, raw_symbols, symbols, failures, decision,
                   writes, fetches, s_signal0, s_probe>>
    /\ UNCHANGED <<stage, quarVars, scoreVars, engineVars, fsVars, writerVars, readerVars, execVars, orchVars>>

(***************************************************************************)
(* The Orchestrator: main of main.py                                       *)
(***************************************************************************)
\* now.weekday(): 0 is Monday; day 1 of the model is a Monday.
Weekday(date) == (date - 1) % 7

\* line 50: now.time() >= strategy_time
is_past_strategy_time(now) == now.minute >= STRATEGY_RUN_MINUTE

\* line 51: last_strategy_run != now.date()
is_new_day_Always(last, now) == TRUE

is_new_day(last, now) == last # now.date

\* line 65: 9 <= now.hour < 16 and now.weekday() < 5
MarketOpen_AnyDay(now) ==
    /\ 9 <= now.minute \div 60
    /\ now.minute \div 60 < 16

MarketOpen(now) ==
    /\ 9 <= now.minute \div 60
    /\ now.minute \div 60 < 16
    /\ Weekday(now.date) < 5

\* The clock after a further adv minutes.
ClockAfter(c, adv) ==
    IF c.minute + adv >= 1440
    THEN [date |-> c.date + 1, minute |-> c.minute + adv - 1440, sec |-> 0]
    ELSE [date |-> c.date, minute |-> c.minute + adv, sec |-> 0]

\* The locals of a Strategy run, and of the write_json_contract call it
\* made, are dropped when main returns or raises.
DropStrategyLocals ==
    /\ wpc' = "idle"
    /\ w_contract' = EmptyBody
    /\ w_prev' = AbsentFile
    /\ w_failed' = "none"
    /\ w_ret' = "none"
    /\ UNCHANGED w_count
    /\ spc' = "idle"
    /\ q_data' = << >>
    /\ raw_symbols' = << >>
    /\ symbols' = << >>
    /\ failures' = 0
    /\ decision' = "none"
    /\ alerts' = 0
    /\ writes' = << >>
    /\ fetches' = 0
    /\ s_signal0' = AbsentFile
    /\ s_probe' = "none"
    /\ s_ret' = "none"
    /\ UNCHANGED <<today, q_file>>

\* lines 35-55: the top of the loop and the Strategy test; if it is past
\* the run time on a new day, diamond_v17_main.main() is called.
OrchTick ==
    /\ opc = "tick"
    /\ IF is_past_strategy_time(clock) /\ is_new_day(last_strategy_run, clock)
       THEN /\ opc' = "strategy"
            /\ spc' = "v171_fetch"
            /\ s_signal0' = signal_file
            /\ strategy_starts' = Append(strategy_starts, clock)
       ELSE /\ opc' = "exec_check"
            /\ UNCHANGED <<spc, s_signal0, strategy_starts>>
    /\ UNCHANGED <<today, q_file, q_data, raw_symbols, symbols, failures, decision,
                   alerts, writes, fetches, s_probe, s_ret>>
    /\ UNCHANGED <<last_strategy_run, exec_starts, strategy_returns, o_ticks>>
    /\ UNCHANGED <<stage, quarVars, scoreVars, engineVars, fsVars, writerVars, readerVars, execVars>>

\* lines 56-57: main returned; the day is recorded.
OrchStrategyReturn ==
    /\ opc = "strategy"
    /\ spc = "done"
    /\ s_ret = "normal"
    /\ last_strategy_run' = clock.date
    /\ opc' = "exec_check"
    /\ DropStrategyLocals
    /\ UNCHANGED <<strategy_starts, exec_starts, o_ticks>>
    /\ strategy_returns' = Append(strategy_returns, [date |-> clock.date, starts |-> Len(strategy_starts)])
    /\ UNCHANGED <<stage, quarVars, scoreVars, engineVars, fsVars, readerVars, execVars>>

\* lines 58-59: where the loop goes on after the Strategy main raised.
AfterStrategyError_Stop == "stopped"

AfterStrategyError == "exec_check"

\* lines 58-59: main raised; the exception is printed.
OrchStrategyError ==
    /\ opc = "strategy"
    /\ spc = "done"
    /\ s_ret = "raised"
    /\ opc' = AfterStrategyError
    /\ DropStrategyLocals
    /\ UNCHANGED <<last_strategy_run, strategy_starts, exec_starts, strategy_returns, o_ticks>>
    /\ UNCHANGED <<stage, quarVars, scoreVars, engineVars, fsVars, readerVars, execVars>>

\* lines 65-72: inside the session window the Execution main is called.
OrchExecCheck ==
    /\ opc = "exec_check"
    /\ IF MarketOpen(clock)
       THEN /\ opc' = "execution"
            /\ epc' = "probe"
            /\ run_id' = generate_run_id(clock)
            /\ e_runs' = e_runs + 1
            /\ exec_starts' = Append(exec_starts, clock)
       ELSE /\ opc' = "sleep"
            /\ UNCHANGED <<epc, run_id, e_runs, exec_starts>>
    /\ UNCHANGED <<clock, e_probe, e_meta, e_universe, executable_setups, sheet_rows,
                   e_gate, e_alerts, e_hist, e_shown, e_fetches, e_appends, worksheet, lookups_ok, e_ret>>
    /\ UNCHANGED <<last_strategy_run, strategy_starts, strategy_returns, o_ticks>>
    /\ UNCHANGED <<stage, quarVars, scoreVars, engineVars, fsVars, writerVars, readerVars, stratVars>>

\* lines 68-70: the Execution main returned, or raised and the exception
\* was printed; its locals are dropped.
OrchExecReturn ==
    /\ opc = "execution"
    /\ epc = "done"
    /\ opc' = "sleep"
    /\ epc' = "idle"
    /\ run_id' = <<0, 0>>
    /\ e_probe' = "none"
    /\ e_meta' = EmptyBody.meta
    /\ e_universe' = << >>
    /\ executable_setups' = << >>
    /\ sheet_rows' = << >>
    /\ e_gate' = NoGate
    /\ e_alerts' = 0
    /\ e_hist' = << >>
    /\ e_shown' = << >>
    /\ e_fetches' = 0
    /\ e_appends' = 0
    /\ e_ret' = "none"
    /\ UNCHANGED <<clock, worksheet, lookups_ok, e_runs>>
    /\ UNCHANGED <<last_strategy_run, strategy_starts, exec_starts, strategy_returns, o_ticks>>
    /\ UNCHANGED <<stage, quarVars, scoreVars, engineVars, fsVars, writerVars, readerVars, stratVars>>

\* line 77: time.sleep(EXECUTION_INTERVAL); the next iteration reads the
\* clock adv >= 15 minutes after this one did.
OrchSleep(adv) ==
    /\ opc = "sleep"
    /\ o_ticks < MaxTicks
    /\ adv >= EXECUTION_INTERVAL_MIN
    /\ o_ticks' = o_ticks + 1
    /\ clock' = ClockAfter(clock, adv)
    /\ opc' = "tick"
    /\ UNCHANGED <<epc, run_id, e_probe, e_meta, e_universe, executable_setups, sheet_rows,
                   e_gate, e_alerts, e_hist, e_shown, e_fetches, e_appends, worksheet, lookups_ok, e_runs, e_ret>>
    /\ UNCHANGED <<last_strategy_run, strategy_starts, exec_starts, strategy_returns>>
    /\ UNCHANGED <<stage, quarVars, scoreVars, engineVars, fsVars, writerVars, readerVars, stratVars>>

(***************************************************************************)
(* Specification of the contract file: writers, a reader, kills            *)
(***************************************************************************)
InitFiles ==
    /\ signal_file \in {AbsentFile} \cup {CompleteFile(Contract(ks, 0, c)) : ks \in BOOLEAN, c \in CandLists}
    /\ temp_file = AbsentFile

InitWriter ==
    /\ wpc = "idle"
    /\ w_contract = EmptyBody
    /\ w_prev = AbsentFile
    /\ w_failed = "none"
    /\ w_ret = "none"
    /\ w_count = 0

InitReader ==
    /\ rpc = "idle"
    /\ r_obs = [state |-> "none", body |-> EmptyBody]
    /\ r_count = 0

\* A Strategy run that has not been started.
IdleStrategy ==
    /\ spc = "idle"
    /\ q_data = << >>
    /\ raw_symbols = << >>
    /\ symbols = << >>
    /\ failures = 0
    /\ decision = "none"
    /\ alerts = 0
    /\ writes = << >>
    /\ fetches = 0
    /\ s_signal0 = AbsentFile
    /\ s_probe = "none"
    /\ s_ret = "none"

\* An Execution run that has not been started.
IdleExecution ==
    /\ epc = "idle"
    /\ clock = [date |-> 1, minute |-> 555, sec |-> 0]
    /\ run_id = <<0, 0>>
    /\ e_probe = "none"
    /\ e_meta = EmptyBody.meta
    /\ e_universe = << >>
    /\ executable_setups = << >>
    /\ sheet_rows = << >>
    /\ e_gate = NoGate
    /\ e_alerts = 0
    /\ e_hist = << >>
    /\ e_shown = << >>
    /\ e_fetches = 0
    /\ e_appends = 0
    /\ lookups_ok = TRUE
    /\ e_runs = 0
    /\ e_ret = "none"

\* An Orchestrator that has not been started.
IdleOrchestrator ==
    /\ opc = "off"
    /\ last_strategy_run = 0
    /\ strategy_starts = << >>
    /\ exec_starts = << >>
    /\ strategy_returns = << >>
    /\ o_ticks = 0

\* No is_quarantined call has been made.
NoCall == [called |-> FALSE, sym |-> 0, had_entry |-> FALSE, entry |-> CorruptDate,
           day |-> 0, due |-> FALSE, ret |-> FALSE]

\* No add_to_quarantine call has been made.
NoAdd == [called |-> FALSE, sym |-> 0, day |-> 0, before |-> << >>, after |-> << >>,
          file |-> << >>, saved |-> FALSE, raised |-> FALSE]

IdleQuarantineCalls ==
    /\ q_paroled = {}
    /\ q_last = NoCall
    /\ q_add = NoAdd

\* No calculate_score call is modelled.
NoScoreInput == [given |-> FALSE]
NotScored == [kind |-> "not_called"]

IdleScore ==
    /\ score_in = NoScoreInput
    /\ score_out = NotScored

\* A logic engine that has not been started.
IdleEngine ==
    /\ gpc = "off"
    /\ stock_data = << >>
    /\ sector_map = << >>
    /\ dispersion = [num |-> 0, den |-> 1]
    /\ kill_switch = FALSE
    /\ sorted_secs = << >>
    /\ candidates = << >>
    /\ rejected = << >>

InitWriterSpec ==
    /\ stage = "strategy"
    /\ InitFiles /\ InitWriter /\ InitReader
    /\ IdleStrategy /\ today = 9 /\ q_file = << >>
    /\ IdleExecution /\ worksheet = <<Header>>
    /\ IdleOrchestrator
    /\ IdleQuarantineCalls /\ IdleScore /\ IdleEngine

NextWriter ==
    \/ \E ks \in BOOLEAN, c \in CandLists : WriteBegin(ks, c)
    \/ WriteOpenTmp
    \/ WriteDump
    \/ WriteRemove
    \/ WriteRename
    \/ WriteIOError
    \/ WriteReturn
    \/ WriteKill
    \/ ReadExists
    \/ ReadOpen

SpecWriter == InitWriterSpec /\ [][NextWriter]_vars

(***************************************************************************)
(* Specification of one stage process: the v17.2 Strategy script or the    *)
(* Execution script (run again and again against one worksheet)            *)
(***************************************************************************)
\* Symbols that quarantine files of the model mention, and their dates.
QSyms == 1..2
StoredDates == {Stored(2), Stored(3), CorruptDate}
QFiles == UNION {[S -> StoredDates] : S \in SUBSET QSyms}

\* The contracts an Execution run may find: sorted or not, and one that
\* lists a symbol twice.
ExecUniverses ==
    {<<>>, <<Cand("INFY", 90)>>, <<Cand("RELIANCE", 80), Cand("INFY", 90)>>,
     <<Cand("INFY", 90), Cand("INFY", 90)>>}

\* The live frames of a run: for each symbol none, one whose price is below
\* its 50-period average, or one that passes refine_trade.
MissingFrame == Frame(0, 0, NaN, NaN)
BelowFrame == Frame(250, 10000, Num(10001), Num(206))
OkFrame == Frame(250, 10000, Num(9500), Num(206))

LiveOutcomes == [Symbols -> {MissingFrame, BelowFrame, OkFrame}]

InitStrategy ==
    /\ stage = "strategy"
    /\ signal_file \in {AbsentFile, CompleteFile(Contract(FALSE, 0, <<Cand("RELIANCE", 80)>>))}
    /\ temp_file = AbsentFile
    /\ InitWriter
    /\ InitReader
    /\ IdleStrategy
    /\ today = 9
    /\ q_file \in QFiles
    /\ IdleExecution
    /\ worksheet = <<Header>>
    /\ IdleOrchestrator
    /\ IdleQuarantineCalls /\ IdleScore /\ IdleEngine

InitExecution ==
    /\ stage = "execution"
    /\ signal_file \in {AbsentFile, PartialFile(Contract(FALSE, 0, <<Cand("INFY", 90)>>))}
                       \cup {CompleteFile(Contract(ks, 0, u)) : ks \in BOOLEAN, u \in ExecUniverses}
    /\ temp_file = AbsentFile
    /\ InitWriter
    /\ InitReader
    /\ IdleStrategy
    /\ today = 9
    /\ q_file = << >>
    /\ IdleExecution
    /\ worksheet \in {<< >>, <<Header>>}
    /\ IdleOrchestrator
    /\ IdleQuarantineCalls /\ IdleScore /\ IdleEngine

Init == InitStrategy \/ InitExecution

NextStrategy ==
    \/ StratStart
    \/ \E ok \in BOOLEAN : StratProbe(ok)
    \/ StratContext
    \/ \E ok \in BOOLEAN, n \in 0..MaxUniverse : StratUniverse(ok, n)
    \/ \E save \in {"ok", "failed", "truncated"} : StratFilter(save)
    \/ \E f \in 0..MaxUniverse : StratBulk(f)
    \/ StratBulkRaises
    \/ \E cache \in {"fresh", "stale", "raises"} : StratBreaker(cache)
    \/ StratGovernance
    \/ StratScore
    \/ StratLogRaises
    \/ \E ks \in BOOLEAN, c \in CandLists : StratCallWrite(ks, c)
    \/ StratReturn
    \/ WriteOpenTmp
    \/ WriteDump
    \/ WriteRemove
    \/ WriteRename
    \/ WriteIOError
    \/ WriteReturn

NextExecution ==
    \/ ExecStart
    \/ \E ok \in BOOLEAN : ExecProbe(ok)
    \/ ExecLoad
    \/ \E ok \in BOOLEAN, live \in LiveOutcomes : ExecRefine(ok, live)
    \/ ExecReport
    \/ \E conn \in BOOLEAN, lookup \in BOOLEAN, append \in BOOLEAN : ExecPush(conn, lookup, append)
    \/ \E adv \in {"same_minute", "next_minute", "next_day"} : ExecExit(adv)

Next == NextStrategy \/ NextExecution

Spec == Init /\ [][Next]_vars

(***************************************************************************)
(* Specification of one Execution run over a contract of up to MaxSetups   *)
(* candidates and live frames of every kind refine_trade distinguishes     *)
(***************************************************************************)
\* The kinds of live frame: passing; passing with the fewest bars and the
\* price at the average; one bar short; price below the average; ATR zero;
\* ATR NaN; no frame; no indicator series; a close that is not a number.
FrameKinds ==
    <<OkFrame,
      Frame(EXEC_MIN_BARS_REQUIRED, 10013, Num(10013), Num(206)),
      Frame(EXEC_MIN_BARS_REQUIRED - 1, 10000, Num(9500), Num(206)),
      BelowFrame,
      Frame(250, 10000, Num(9500), Num(0)),
      Frame(250, 10000, Num(9500), NaN),
      MissingFrame,
      Frame(250, 10000, Undef, Undef),
      [OkFrame EXCEPT !.bad_close = TRUE]>>

\* hist: every symbol passing; the kinds in rotation over the symbols; or
\* one symbol of a kind and the others passing.
ExecProfiles ==
    {[j \in 1..MaxSetups |-> OkFrame]}
    \cup {[j \in 1..MaxSetups |-> FrameKinds[((j + k) % Len(FrameKinds)) + 1]] :
             k \in 1..Len(FrameKinds)}
    \cup {[j \in 1..MaxSetups |-> IF j = 2 THEN FrameKinds[k] ELSE OkFrame] :
             k \in 1..Len(FrameKinds)}

\* The contract score of candidate j: rising or falling with j, or mixed
\* with ties.
ContractScore(order, j) ==
    CASE order = "rising" -> 76 + 3 * j
      [] order = "falling" -> 100 - 3 * j
      [] order = "mixed" -> 80 + ((j * 5) % 4) * 4

\* A contract entry as calculate_score produced it: the levels are those of
\* the Strategy run, levels[1] or levels[2].
StoredLevels == <<[price |-> 9000, sl |-> 8800, tgt |-> 9400], [price |-> 11000, sl |-> 10500, tgt |-> 12000]>>

ContractEntry(j, order, lv) ==
    [symbol |-> j, score |-> ContractScore(order, j),
     price |-> StoredLevels[lv].price, sl |-> StoredLevels[lv].sl, tgt |-> StoredLevels[lv].tgt]

InitExec ==
    /\ stage = "execution"
    /\ \E ks \in BOOLEAN, n \in 0..MaxSetups, order \in {"rising", "falling", "mixed"}, lv \in 1..2 :
          signal_file = CompleteFile(Contract(ks, 0, [j \in 1..n |-> ContractEntry(j, order, lv)]))
    /\ temp_file = AbsentFile
    /\ InitWriter
    /\ InitReader
    /\ IdleStrategy
    /\ today = 9
    /\ q_file = << >>
    /\ IdleExecution
    /\ worksheet = <<Header>>
    /\ IdleOrchestrator
    /\ IdleQuarantineCalls /\ IdleScore /\ IdleEngine

NextExec ==
    \/ ExecStart
    \/ \E ok \in BOOLEAN : ExecProbe(ok)
    \/ ExecLoad
    \/ \E ok \in BOOLEAN, live \in ExecProfiles : ExecRefine(ok, live)
    \/ ExecReport
    \/ \E conn \in BOOLEAN, lookup \in BOOLEAN, append \in BOOLEAN : ExecPush(conn, lookup, append)

SpecExec == InitExec /\ [][NextExec]_vars

(***************************************************************************)
(* Specification of the Orchestrator process (main.py)                     *)
(***************************************************************************)
\* The sleeps of the model: the interval, eight hours, a day.
TickAdvances == {15, 480, 1440}

InitOrch ==
    /\ stage = "orchestrator"
    /\ signal_file = CompleteFile(Contract(FALSE, 0, <<Cand("RELIANCE", 80)>>))
    /\ temp_file = AbsentFile
    /\ InitWriter
    /\ InitReader
    /\ IdleStrategy
    /\ today = 9
    /\ q_file = << >>
    /\ epc = "idle"
    /\ clock \in {[date |-> d, minute |-> m, sec |-> 0] : d \in {1, 6}, m \in {540, 555}}
    /\ run_id = <<0, 0>>
    /\ e_probe = "none"
    /\ e_meta = EmptyBody.meta
    /\ e_universe = << >>
    /\ executable_setups = << >>
    /\ sheet_rows = << >>
    /\ e_gate = NoGate
    /\ e_alerts = 0
    /\ e_hist = << >>
    /\ e_shown = << >>
    /\ e_fetches = 0
    /\ e_appends = 0
    /\ lookups_ok = TRUE
    /\ e_runs = 0
    /\ e_ret = "none"
    /\ worksheet = <<Header>>
    /\ opc = "tick"
    /\ last_strategy_run = 0
    /\ strategy_starts = << >>
    /\ exec_starts = << >>
    /\ strategy_returns = << >>
    /\ o_ticks = 0
    /\ IdleQuarantineCalls /\ IdleScore /\ IdleEngine

NextOrch ==
    \/ OrchTick
    \/ \E n \in 0..MaxOrchUniverse, f \in 0..MaxOrchUniverse, stale \in BOOLEAN : V171Fetch(n, f, stale)
    \/ V171Raises
    \/ V171Governance
    \/ V171Score
    \/ \E c \in {<<>>, <<Cand("INFY", 90)>>} : V171CallWrite(c = <<>>, c)
    \/ WriteOpenTmp
    \/ WriteDump
    \/ WriteRemove
    \/ WriteRename
    \/ WriteIOError
    \/ WriteReturn
    \/ V171Report
    \/ OrchStrategyReturn
    \/ OrchStrategyError
    \/ OrchExecCheck
    \/ \E ok \in BOOLEAN : ExecProbe(ok)
    \/ ExecLoad
    \/ \E ok \in BOOLEAN, live \in {[sym \in Symbols |-> o] : o \in {BelowFrame, OkFrame}} : ExecRefine(ok, live)
    \/ ExecReport
    \/ ExecReportRaises
    \/ \E conn \in BOOLEAN : ExecPush(conn, TRUE, TRUE)
    \/ OrchExecReturn
    \/ \E adv \in TickAdvances : OrchSleep(adv)

SpecOrch == InitOrch /\ [][NextOrch]_vars

\* The Orchestrator is one sequential process that keeps running: a step
\* that is possible is taken.
SpecOrchLive == SpecOrch /\ WF_vars(NextOrch)

(***************************************************************************)
(* Specification of the quarantine store: runs that load the file and call *)
(* is_quarantined symbol by symbol, on the same day or on later days       *)
(***************************************************************************)
\* line 320: q_data = load_quarantine(), at the start of a run.
QuarLoad ==
    /\ stage = "quarantine"
    /\ spc = "idle"
    /\ q_data' = q_file
    /\ spc' = "filter"
    /\ UNCHANGED <<today, q_file, raw_symbols, symbols, failures, decision, alerts,
                   writes, fetches, s_signal0, s_probe, s_ret>>
    /\ UNCHANGED <<stage, quarVars, scoreVars, engineVars, fsVars, writerVars, readerVars, execVars, orchVars>>

\* lines 60-75: one call is_quarantined(sym, q_data), as made by line 338.
\* On parole the entry is deleted from the dict and save_quarantine is called
\* inside the try block: a save that raises is swallowed by the bare except
\* (line 74) and False is returned all the same; the file is then as it was
\* (the open failed) or empty (the open truncated it and the dump failed).
QuarCall(sym, save) ==
    /\ stage = "quarantine"
    /\ spc = "filter"
    /\ LET due == ParoleDue(sym, q_data, today)
       IN /\ q_last' = [called |-> TRUE, sym |-> sym,
                        had_entry |-> sym \in DOMAIN q_data,
                        entry |-> IF sym \in DOMAIN q_data THEN q_data[sym] ELSE CorruptDate,
                        day |-> today, due |-> due,
                        ret |-> is_quarantined(sym, q_data, today)]
          /\ q_paroled' = IF due THEN q_paroled \cup {sym} ELSE q_paroled
          /\ q_data' = IF due THEN DictDel(q_data, sym) ELSE q_data
          /\ IF due
             THEN CASE save = "ok" -> q_file' = DictDel(q_data, sym)
                    [] save = "failed" -> q_file' = q_file
                    [] save = "truncated" -> q_file' = << >>
             ELSE save = "ok" /\ q_file' = q_file
    /\ UNCHANGED <<spc, today, raw_symbols, symbols, failures, decision, alerts,
                   writes, fetches, s_signal0, s_probe, s_ret>>
    /\ UNCHANGED <<stage, q_add, scoreVars, engineVars, fsVars, writerVars, readerVars, execVars, orchVars>>

\* lines 57-58 and 77-80: save_quarantine opens and dumps outside any try
\* block and add_to_quarantine calls it outside any try block, so an
\* exception of the open or of the dump leaves add_to_quarantine.
AddRaises(save) == save # "ok"

\* lines 77-80: one call add_to_quarantine(sym, reason, q_data).  The entry
\* is set to today's date in the dict, then save_quarantine rewrites the
\* file: the file is then the dict, or as it was (the open failed), or empty
\* (the open truncated it and the dump failed).  An exception ends the
\* caller, which has no handler of its own.
QuarAdd(sym, save) ==
    /\ stage = "quarantine"
    /\ spc = "filter"
    /\ LET after == DictSet(q_data, sym, Stored(today))
           file == CASE save = "ok" -> after
                     [] save = "failed" -> q_file
                     [] save = "truncated" -> << >>
       IN /\ q_data' = after
          /\ q_file' = file
          /\ q_add' = [called |-> TRUE, sym |-> sym, day |-> today, before |-> q_data,
                       after |-> after, file |-> file, saved |-> save = "ok",
                       raised |-> AddRaises(save)]
          /\ spc' = IF AddRaises(save) THEN "raised" ELSE "filter"
    /\ UNCHANGED <<today, raw_symbols, symbols, failures, decision, alerts,
                   writes, fetches, s_signal0, s_probe, s_ret>>
    /\ UNCHANGED <<stage, q_paroled, q_last, scoreVars, engineVars, fsVars, writerVars, readerVars, execVars, orchVars>>

\* The process ends; the next run starts d days later with the file as it is.
QuarExit(d) ==
    /\ stage = "quarantine"
    /\ spc = "filter"
    /\ today + d <= 9 + MaxDays
    /\ today' = today + d
    /\ q_data' = << >>
    /\ spc' = "idle"
    /\ UNCHANGED <<q_file, raw_symbols, symbols, failures, decision, alerts,
                   writes, fetches, s_signal0, s_probe, s_ret>>
    /\ UNCHANGED <<stage, quarVars, scoreVars, engineVars, fsVars, writerVars, readerVars, execVars, orchVars>>

InitQuar ==
    /\ stage = "quarantine"
    /\ InitFiles /\ signal_file = AbsentFile
    /\ InitWriter /\ InitReader
    /\ IdleStrategy /\ today = 9 /\ q_file \in QFiles
    /\ IdleExecution /\ worksheet = <<Header>>
    /\ IdleOrchestrator
    /\ IdleQuarantineCalls /\ IdleScore /\ IdleEngine

NextQuar ==
    \/ QuarLoad
    \/ \E sym \in QSyms, save \in {"ok", "failed", "truncated"} : QuarCall(sym, save)
    \/ \E d \in 0..1 : QuarExit(d)

SpecQuar == InitQuar /\ [][NextQuar]_vars

\* The quarantine store with its add operation, which no run of the
\* Strategy script calls: the runs of SpecQuar with calls of
\* add_to_quarantine among the calls of is_quarantined.
NextQuarAdd ==
    \/ NextQuar
    \/ \E sym \in QSyms, save \in {"ok", "failed", "truncated"} : QuarAdd(sym, save)

SpecQuarAdd == InitQuar /\ [][NextQuarAdd]_vars

(***************************************************************************)
(* Specification of calculate_score: one call on arguments drawn from the  *)
(* cases its branches distinguish                                          *)
(***************************************************************************)
\* Sectors are numbered; 0 is 'Unknown'.
ScoreSectorMaps == {<< >>, <<100, 33>>}

ScoreInputs ==
    [given : {TRUE}, symbol : {1}, bars : {99, 100}, price : {Num(100)},
     ema20 : {Num(90), Num(110), NaN},
     ema50 : {Num(80), Num(95), Num(105)},
     ema200 : {Num(70), Num(85), Undef},
     rsi : {Num(54), Num(55), Num(70), Num(71), NaN},
     atr : {Num(0), Num(1), Num(3), Num(5), NaN, Undef},
     delivery : {[known |-> FALSE, nan |-> FALSE, v |-> 0], [known |-> TRUE, nan |-> FALSE, v |-> 0],
                 [known |-> TRUE, nan |-> FALSE, v |-> 100], [known |-> TRUE, nan |-> FALSE, v |-> -6]},
     sector_map : ScoreSectorMaps, sector : {0, 2},
     alpha_bps : {0, 400}, pe : {20, 80}, de : {50, 200}]

InitScore ==
    /\ stage = "score"
    /\ InitFiles /\ signal_file = AbsentFile
    /\ InitWriter /\ InitReader
    /\ IdleStrategy /\ today = 9 /\ q_file = << >>
    /\ IdleExecution /\ worksheet = <<Header>>
    /\ IdleOrchestrator
    /\ IdleQuarantineCalls /\ IdleEngine
    /\ score_in \in ScoreInputs
    /\ score_out = NotScored

NextScore == ScoreCall

SpecScore == InitScore /\ [][NextScore]_vars

(***************************************************************************)
(* Specification of the logic engine: one run over processed_data drawn    *)
(* from sector profiles                                                    *)
(***************************************************************************)
\* The sizes of the first three sectors (sector 0 is 'Unknown').
SectorSizes == {0, 3, 4, MIN_SECTOR_SIZE, MaxSectorSize}

\* The item with number j: every fourth has no delivery percentage, every
\* seventh a frame shorter than MIN_BARS_REQUIRED.
Item(j, sec, perf) ==
    [symbol |-> j, sector |-> sec, perf_10d |-> perf,
     bars |-> IF j % 7 = 3 THEN 99 ELSE 250,
     delivery |-> IF j % 4 = 0 THEN [known |-> FALSE, nan |-> FALSE, v |-> 0]
                  ELSE [known |-> TRUE, nan |-> FALSE, v |-> (j * 13) % 70]]

\* processed_data with size[k] items of each sector 0..k, sector by sector.
RECURSIVE BuildData(_, _, _)
BuildData(k, size, base) ==
    IF k < 0 THEN << >>
    ELSE LET front == BuildData(k - 1, size, base)
         IN front \o [i \in 1..size[k] |-> Item(Len(front) + i, k, base[k] + ((i * 3) % 4))]

\* processed_data in which the delivery percentage of item number bad is
\* NaN (bad = 0: of no item).
WithNaNDelivery(data, bad) ==
    [i \in 1..Len(data) |->
        IF data[i].symbol = bad
        THEN [data[i] EXCEPT !.delivery = [known |-> TRUE, nan |-> TRUE, v |-> 0]]
        ELSE data[i]]

\* The 10-day performance of the sectors: rising or falling with the
\* sector number, or the same for all.
PerfOrders == {"rising", "falling", "equal"}

BasePerf(order, k) ==
    CASE order = "rising" -> 10 * k
      [] order = "falling" -> 0 - 10 * k
      [] order = "equal" -> 0

InitEngine ==
    /\ stage = "engine"
    /\ InitFiles /\ signal_file = AbsentFile
    /\ InitWriter /\ InitReader
    /\ IdleStrategy /\ today = 9 /\ q_file = << >>
    /\ IdleExecution /\ worksheet = <<Header>>
    /\ IdleOrchestrator
    /\ IdleQuarantineCalls /\ IdleScore
    /\ gpc = "governance"
    /\ \E first \in [0..2 -> SectorSizes], extra \in 0..MaxExtraSectors, order \in PerfOrders,
          bad \in {0, 2} :
          stock_data = WithNaNDelivery(
                           BuildData(2 + extra,
                                     [k \in 0..(2 + extra) |-> IF k <= 2 THEN first[k] ELSE MIN_SECTOR_SIZE],
                                     [k \in 0..(2 + extra) |-> BasePerf(order, k)]),
                           bad)
    /\ sector_map = << >>
    /\ dispersion = [num |-> 0, den |-> 1]
    /\ kill_switch = FALSE
    /\ sorted_secs = << >>
    /\ candidates = << >>
    /\ rejected = << >>

NextEngine ==
    \/ EngineGovernance
    \/ EngineScore
    \/ EngineSort
    \/ EngineCallWrite
    \/ WriteOpenTmp
    \/ WriteDump
    \/ WriteRemove
    \/ WriteRename
    \/ WriteIOError
    \/ WriteReturn
    \/ EngineReturn

SpecEngine == InitEngine /\ [][NextEngine]_vars

(***************************************************************************)
(* Claims about the contract file (checked under SpecWriter)               *)
(***************************************************************************)
\* The positions between the first and the last statement of a write.
WriteInProgress == wpc \in {"open_tmp", "dump", "remove", "rename", "ok", "except"}

\* C1: while a write that began with a complete previous contract in place
\* is in progress, every load_signal that completes observes the complete
\* previous contract or the complete new contract: never a partial file and
\* never an absent one.
C1_ReaderSeesOldOrNew ==
    [][(WriteInProgress /\ w_prev.state = "complete" /\ rpc # "done" /\ rpc' = "done")
         => r_obs' \in {w_prev, CompleteFile(w_contract)}]_vars

\* C2: a process killed after the temp file was completely written and
\* before the rename has happened (the temp file still holds the new
\* contract) leaves the previous contract, complete, at the canonical path.
C2_KillLeavesPrevious ==
    (wpc = "killed" /\ w_prev.state = "complete" /\ temp_file = CompleteFile(w_contract))
        => signal_file = w_prev

\* C3: a write one of whose I/O steps failed leaves the previous contract
\* unchanged at the canonical path and ends by raising to its caller.
C3_FailureSurfaced ==
    (wpc = "done" /\ w_failed # "none")
        => (signal_file = w_prev /\ w_ret = "raised")


(***************************************************************************)
(* Claims about the stage processes (checked under Spec)                   *)
(***************************************************************************)
Range(seq) == {seq[i] : i \in 1..Len(seq)}

C6_AbortWritesNothing ==
    (decision # "none" /\ failures * 100 > 15 * Len(symbols)) =>
        /\ spc = "done"
        /\ s_ret = "normal"
        /\ alerts = 1
        /\ Range(writes) \subseteq {"quarantine"}
        /\ wpc = "idle"
        /\ temp_file = AbsentFile
        /\ signal_file = s_signal0

\* C6 witness: an aborted run that found a contract in place and had
\* paroled a symbol before the decision.
C6_Witness ==
    /\ decision = "abort"
    /\ spc = "done"
    /\ alerts = 1
    /\ s_signal0.state = "complete"
    /\ writes = <<"quarantine">>

\* C7: a stage whose health probe returned false has ended, normally, having
\* sent no message, written nothing (quarantine, cache, logs, contract,
\* worksheet) and issued no further fetch.
C7_ProbeFailureIsSilent ==
    /\ s_probe = "failed" =>
          /\ spc = "done"
          /\ s_ret = "normal"
          /\ alerts = 0
          /\ writes = << >>
          /\ fetches = 0
          /\ wpc = "idle"
          /\ temp_file = AbsentFile
          /\ signal_file = s_signal0
    /\ e_probe = "failed" =>
          /\ epc = "done"
          /\ e_ret = "normal"
          /\ e_alerts = 0
          /\ e_fetches = 0
          /\ e_appends = 0
          /\ ~e_gate.ran
          /\ wpc = "idle"
          /\ temp_file = AbsentFile

\* C7 witness: a Strategy run that found a contract and whose probe failed.
C7_Witness ==
    /\ s_probe = "failed"
    /\ spc = "done"
    /\ s_signal0.state = "complete"

\* C9: as long as every existing-key lookup has succeeded, no two rows of
\* the worksheet have the same (date, symbol, run_id).
C9_NoDuplicateKeys ==
    lookups_ok =>
        \A i, j \in 1..Len(worksheet) :
            i < j => <<worksheet[i][1], worksheet[i][2], worksheet[i][Len(worksheet[i])]>>
                        # <<worksheet[j][1], worksheet[j][2], worksheet[j][Len(worksheet[j])]>>

\* C10: when the lookup succeeded, the gate's output is its input with the
\* rows removed whose (date, symbol, run_id) is that of a persisted row (a
\* row after the header), in input order; and the run ends normally.
C10_KeyOfPersistedRow(r, sheet) ==
    \E i \in 2..Len(sheet) :
        /\ Len(sheet[i]) >= 3
        /\ sheet[i][1] = r[1]
        /\ sheet[i][2] = r[2]
        /\ sheet[i][Len(sheet[i])] = r[Len(r)]

C11_LookupFailureAppendsAll ==
    (e_gate.ran /\ ~e_gate.ok) =>
        /\ e_gate.output = e_gate.input
        /\ e_ret = "normal"
        /\ epc = "done"
        /\ e_appends = 1 => worksheet = e_gate.sheet \o e_gate.input

\* C11 witness: the lookup failed for a run one of whose rows was already
\* persisted, and the rows were appended all the same.
C11_Witness ==
    /\ e_gate.ran /\ ~e_gate.ok
    /\ e_appends = 1
    /\ \E k \in 1..Len(e_gate.input) : C10_KeyOfPersistedRow(e_gate.input[k], e_gate.sheet)

(***************************************************************************)
(* Claims about one Execution run (checked under SpecExec)                 *)
(***************************************************************************)
\* The symbols of the setups and of the rows the run has prepared.
SetupSymbols == {executable_setups[i].symbol : i \in 1..Len(executable_setups)}
RowSymbols == {sheet_rows[i][2] : i \in 1..Len(sheet_rows)}

\* C22: once the refinement loop has run, a candidate whose live frame is
\* missing or has fewer than 50 bars, or whose live price is below the
\* 50-period average, has no setup and no row, whatever its score; one with
\* 50 bars or more, the price at or above the average and a positive ATR
\* has a setup and a row.
C22_RefinerRejectsStaleTrend ==
    (epc \in {"report", "push", "done"} /\ e_hist # << >>) =>
        \A u \in Range(e_universe) :
            LET df == e_hist[u.symbol]
            IN /\ (\/ ~df.present
                    \/ df.bars < 50
                    \/ (df.ema50.k = "num" /\ df.price < df.ema50.v))
                   => (u.symbol \notin SetupSymbols /\ u.symbol \notin RowSymbols)
               /\ (/\ df.present /\ df.bars >= 50 /\ ~df.bad_close
                    /\ df.ema50.k = "num" /\ df.price >= df.ema50.v
                    /\ df.atr.k = "num" /\ df.atr.v > 0)
                   => (u.symbol \in SetupSymbols /\ u.symbol \in RowSymbols)

\* C22 witness: a run that dropped a candidate below its average although
\* it scored higher than one it kept, dropped one of 49 bars, and kept one
\* of 50 bars whose price is at the average.
C22_Witness ==
    /\ epc = "push"
    /\ \E u, v, w, x \in Range(e_universe) :
          /\ e_hist[u.symbol] = BelowFrame /\ u.symbol \notin SetupSymbols
          /\ v.symbol \in SetupSymbols /\ v.score < u.score
          /\ e_hist[w.symbol].bars = 49 /\ w.symbol \notin SetupSymbols
          /\ e_hist[x.symbol].bars = 50 /\ e_hist[x.symbol].price = e_hist[x.symbol].ema50.v
          /\ x.symbol \in RowSymbols

\* C23: the setups a run emits, in its message and in the rows it hands to
\* check_sheets_idempotency, are the max_display setups of highest contract
\* score among those that passed refinement (2 with the kill switch on, 5
\* otherwise), and no more than max_display.
C23_OutputThrottled ==
    e_gate.ran =>
        LET n == IF e_meta.kill_switch THEN 2 ELSE 5
            shown == {e_shown[i].symbol : i \in 1..Len(e_shown)}
            handed == {e_gate.input[i][2] : i \in 1..Len(e_gate.input)}
        IN /\ Len(e_shown) <= n
           /\ Len(e_shown) = n \/ shown = SetupSymbols
           /\ \A a \in Range(e_shown) : \A b \in Range(executable_setups) :
                 b.symbol \notin shown => a.score >= b.score
           /\ Len(e_gate.input) <= n
           /\ handed = shown

\* The universe u with other stored levels: those of lv for the candidates
\* of chg.
WithLevels(u, chg, lv) ==
    [i \in 1..Len(u) |->
        IF i \in chg
        THEN [u[i] EXCEPT !.price = StoredLevels[lv].price, !.sl = StoredLevels[lv].sl,
                          !.tgt = StoredLevels[lv].tgt]
        ELSE u[i]]

\* C24: a setup's price is the live price, its stop-loss the live price
\* less 2.0 ATR and its target the live price plus 3.5 ATR, to the nearest
\* tenth; and a contract that differs from the loaded one only in the stored
\* price, stop-loss and target of some candidates gives, for the same live
\* frames, the same setups and rows.
C24_LevelsFromLiveOnly ==
    (epc = "report" /\ e_hist # << >>) =>
        /\ \A i \in 1..Len(executable_setups) :
              LET st == executable_setups[i]
                  df == e_hist[st.symbol]
                  slx == df.price - 2 * df.atr.v
                  tgt2 == 2 * df.price + 7 * df.atr.v
              IN /\ st.price = df.price
                 /\ st.sl % 10 = 0 /\ st.sl - slx <= 5 /\ slx - st.sl <= 5
                 /\ st.tgt % 10 = 0 /\ 2 * st.tgt - tgt2 <= 10 /\ tgt2 - 2 * st.tgt <= 10
                 /\ sheet_rows[i][2] = st.symbol
                 /\ <<sheet_rows[i][4], sheet_rows[i][5], sheet_rows[i][6]>> = <<st.price, st.sl, st.tgt>>
        /\ \A lv \in 1..Len(StoredLevels) : \A chg \in {{1}, {Len(e_universe)}, 1..Len(e_universe)} :
              RefineAll(WithLevels(e_universe, chg, lv), e_hist, e_meta.protocol, clock.date, run_id)
                  = [setups |-> executable_setups, rows |-> sheet_rows]

\* C24 witness: a setup whose price, stop-loss and target (100.00, 95.90,
\* 107.20) all differ from the levels stored in the contract.
C24_Witness ==
    /\ epc = "report"
    /\ \E i \in 1..Len(executable_setups) : \E u \in Range(e_universe) :
          /\ u.symbol = executable_setups[i].symbol
          /\ executable_setups[i].price = 10000 /\ u.price # 10000
          /\ executable_setups[i].sl = 9590 /\ u.sl # 9590
          /\ executable_setups[i].tgt = 10720 /\ u.tgt # 10720

(***************************************************************************)
(* Claims about the quarantine store (checked under SpecQuar)              *)
(***************************************************************************)
\* C12: a call of is_quarantined returns true iff the symbol had an entry
\* and today - jailed_on < QUARANTINE_DAYS; and after a call that saw
\* today - jailed_on >= QUARANTINE_DAYS and returned false, the quarantine
\* file no longer holds the symbol.
C12_ParoleIsPersisted ==
    q_last.called =>
        /\ q_last.ret <=> (/\ q_last.had_entry
                           /\ q_last.entry.valid
                           /\ q_last.day - q_last.entry.day < 7)
        /\ (q_last.due /\ ~q_last.ret) => q_last.sym \notin DOMAIN q_file

\* C13: once a call has seen a symbol with today - jailed_on >=
\* QUARANTINE_DAYS, every call for that symbol returns false and the
\* quarantine file does not hold the symbol, in that run and in later ones.
C13_ParoleIsMonotonic ==
    /\ (q_last.called /\ q_last.sym \in q_paroled) => ~q_last.ret
    /\ \A sym \in q_paroled : sym \notin DOMAIN q_file

\* The step is a call of is_quarantined for a symbol whose stored date does
\* not parse.
CallOnCorruptDate ==
    /\ q_last' # q_last
    /\ q_last'.called /\ q_last'.had_entry /\ ~q_last'.entry.valid

\* C28: a call of is_quarantined for a symbol whose stored date does not
\* parse returns false and takes no parole; it leaves the dict and the file
\* as they were, so the answer for every other symbol is what it was; and
\* the universe filter of line 338 over a dict with such entries runs to its
\* end, keeps the symbols with such entries and keeps or drops every symbol
\* as a call for it alone decides.
C28_CorruptDateFailsOpen ==
    /\ [](/\ (q_last.called /\ q_last.had_entry /\ ~q_last.entry.valid) =>
                (~q_last.ret /\ ~q_last.due)
          /\ \A raw \in {<<1, 2>>, <<2, 1>>, <<2, 2, 1>>} :
                LET r == FilterUniverse(raw, q_data, today)
                    kept(sym) == ~is_quarantined(sym, q_data, today)
                IN /\ r.symbols = SelectSeq(raw, kept)
                   /\ \A i \in 1..Len(raw) :
                         (raw[i] \in DOMAIN q_data /\ ~q_data[raw[i]].valid) =>
                             /\ \E k \in 1..Len(r.symbols) : r.symbols[k] = raw[i]
                             /\ raw[i] \in DOMAIN r.q_data
                             /\ r.q_data[raw[i]] = q_data[raw[i]])
    /\ [][CallOnCorruptDate =>
            /\ q_data' = q_data
            /\ q_file' = q_file
            /\ \A sym \in QSyms \ {q_last'.sym} :
                  is_quarantined(sym, q_data', today') = is_quarantined(sym, q_data, today)]_vars

\* A call has just released symbol 1, whose stored date does not parse, while
\* symbol 2 is still jailed under a date that does.
C28_Witness ==
    /\ q_last.called /\ q_last.sym = 1 /\ q_last.had_entry /\ ~q_last.entry.valid
    /\ ~q_last.ret
    /\ 2 \in DOMAIN q_data /\ q_data[2].valid
    /\ is_quarantined(2, q_data, today)
    /\ q_file = q_data
    /\ FilterUniverse(<<1, 2>>, q_data, today).symbols = <<1>>

\* C29: a call of add_to_quarantine sets the symbol's entry to today's date,
\* leaving one entry per symbol and the other entries as they were, whether
\* or not the symbol was jailed already; it writes the dict to the file; and
\* a failure to write does not reach the caller as an exception.
C29_AddPersistsWithoutRaising ==
    q_add.called =>
        /\ DOMAIN q_add.after = DOMAIN q_add.before \cup {q_add.sym}
        /\ q_add.after[q_add.sym] = Stored(q_add.day)
        /\ \A k \in DOMAIN q_add.before \ {q_add.sym} : q_add.after[k] = q_add.before[k]
        /\ q_add.saved => q_add.file = q_add.after
        /\ ~q_add.raised

(***************************************************************************)
(* Claims about calculate_score (checked under SpecScore)                  *)
(***************************************************************************)
\* C15: when calculate_score gives a candidate, the delivery percentage
\* being unknown or >= 0 and the sector map's values within 0..100, each of
\* the seven sub-scores is within 0..100 and the score is the 25/20/15/15/
\* 10/10/5 blend truncated to an integer, within 0..100.
C15_ScoresWithinBounds ==
    (/\ score_out.kind = "candidate"
     /\ ~score_in.delivery.known \/ score_in.delivery.v >= 0
     /\ \A x \in DOMAIN score_in.sector_map : score_in.sector_map[x] \in 0..100) =>
        /\ {score_out.t, score_out.d, score_out.s, score_out.a,
             score_out.f, score_out.solv, score_out.b} \subseteq 0..100
        /\ score_out.score \in 0..100
        /\ LET blend == 25 * score_out.t + 20 * score_out.d + 15 * score_out.s
                         + 15 * score_out.a + 10 * score_out.f + 10 * score_out.solv
                         + 5 * score_out.b
           IN 100 * score_out.score <= blend /\ blend < 100 * (score_out.score + 1)

\* C15 witness: a candidate whose delivery percentage (100) is above the 60
\* that maps to 100, with the technical sub-score at its top.
C15_Witness ==
    /\ score_out.kind = "candidate"
    /\ score_in.delivery.known /\ score_in.delivery.v = 100
    /\ score_out.d = 100
    /\ score_out.t = 100
    /\ score_out.score >= 90

\* C19 as stated: price, the three moving averages and RSI being numbers,
\* the technical sub-score is 100 when the price is above all three averages
\* and RSI is in [55,70], 90 when it is above all three and RSI is outside,
\* 60 when it is above the 50-period average but not above all three, and
\* 20 otherwise.
C19_TechnicalAboveAllThree ==
    (/\ score_out.kind = "candidate"
     /\ \A x \in {score_in.ema20, score_in.ema50, score_in.ema200, score_in.rsi} : x.k = "num") =>
        LET p == score_in.price.v
            above == /\ p > score_in.ema20.v
                     /\ p > score_in.ema50.v
                     /\ p > score_in.ema200.v
            band == 55 <= score_in.rsi.v /\ score_in.rsi.v <= 70
        IN score_out.t = IF above /\ band THEN 100
                         ELSE IF above THEN 90
                         ELSE IF p > score_in.ema50.v THEN 60
                         ELSE 20

\* C19 amended: the top two values require the ordering price > 20-period
\* > 50-period > 200-period average; 60 is given when that ordering does
\* not hold and the price is above the 50-period average; 20 otherwise.
C19_TechnicalOrdered ==
    (/\ score_out.kind = "candidate"
     /\ \A x \in {score_in.ema20, score_in.ema50, score_in.ema200, score_in.rsi} : x.k = "num") =>
        LET p == score_in.price.v
            ordered == /\ p > score_in.ema20.v
                       /\ score_in.ema20.v > score_in.ema50.v
                       /\ score_in.ema50.v > score_in.ema200.v
            band == 55 <= score_in.rsi.v /\ score_in.rsi.v <= 70
        IN score_out.t = IF ordered /\ band THEN 100
                         ELSE IF ordered THEN 90
                         ELSE IF p > score_in.ema50.v THEN 60
                         ELSE 20

\* C19 witness: the price is above all three averages, the 50-period
\* average is below the 200-period one, and the sub-score is 60.
C19_Witness ==
    /\ score_out.kind = "candidate"
    /\ score_in.rsi = Num(55)
    /\ score_in.price.v > score_in.ema20.v
    /\ score_in.price.v > score_in.ema200.v
    /\ score_in.ema200.k = "num" /\ score_in.ema20.k = "num"
    /\ score_in.ema50.v < score_in.ema200.v
    /\ score_out.t = 60

\* C20: calculate_score gives a candidate exactly when the frame has at
\* least MIN_BARS_REQUIRED bars, RSI, the three moving averages and ATR are
\* all finite numbers, and ATR > 0; in every other case it gives None.
C20_NoneUnlessIndicatorsUsable ==
    score_out.kind # "not_called" =>
        /\ score_out.kind \in {"none", "candidate"}
        /\ score_out.kind = "candidate" <=>
              /\ score_in.bars >= 100
              /\ \A x \in {score_in.rsi, score_in.ema20, score_in.ema50,
                            score_in.ema200, score_in.atr} : x.k = "num"
              /\ score_in.atr.v > 0

(***************************************************************************)
(* Claims about the logic engine (checked under SpecEngine)                *)
(***************************************************************************)
\* C14: the contract a Strategy run has written lists its universe in
\* non-increasing score order, its count is the number of universe entries,
\* and the universe has at most 20 entries.
C14_ContractSortedCountedCapped ==
    (gpc \in {"writing", "done"} /\ signal_file.state = "complete") =>
        LET u == signal_file.body.universe
        IN /\ \A i \in 1..(Len(u) - 1) : u[i].score >= u[i + 1].score
           /\ signal_file.body.count = Len(u)
           /\ Len(u) <= 20

\* C14 witness: a finished run that had more than 20 candidates, of
\* different scores, and wrote 20.
C14_Witness ==
    /\ gpc = "done"
    /\ signal_file.state = "complete"
    /\ Len(candidates) > 20
    /\ Len(signal_file.body.universe) = 20
    /\ signal_file.body.universe[1].score > signal_file.body.universe[20].score

\* C16: after the governance step, the dispersion is 0 when fewer than two
\* sectors are ranked, kill_switch is true iff the dispersion is below 15
\* (its square below 225), and the contract the run writes carries that
\* kill_switch, with protocol REDUCE_SIZE_50 iff it is true and
\* NORMAL_SIZE_100 otherwise.
C16_KillSwitchFollowsDispersion ==
    gpc \notin {"off", "governance"} =>
        /\ Len(sorted_secs) < 2 => dispersion.num = 0
        /\ kill_switch <=> dispersion.num < 225 * dispersion.den
        /\ \A meta \in (IF wpc # "idle" THEN {w_contract.meta} ELSE {})
                       \cup (IF signal_file.state = "complete" THEN {signal_file.body.meta} ELSE {}) :
              /\ meta.kill_switch = kill_switch
              /\ meta.protocol = IF kill_switch THEN "REDUCE_SIZE_50" ELSE "NORMAL_SIZE_100"

\* C16 witness: two ranked sectors, the kill switch off, and the contract
\* written with NORMAL_SIZE_100.
C16_Witness ==
    /\ gpc = "done"
    /\ Len(sorted_secs) = 2
    /\ ~kill_switch
    /\ signal_file.state = "complete"
    /\ signal_file.body.meta.protocol = "NORMAL_SIZE_100"

\* The number of processed items of a sector.
SectorMembers(sec) == Cardinality({i \in 1..Len(stock_data) : stock_data[i].sector = sec})

\* C17: after the governance step a sector is in the sector map iff at
\* least 5 processed items belong to it; and every processed item of a
\* sector with fewer items is scored with the sector sub-score 50, as is
\* every candidate the run holds.
C17_SectorMapNeedsBreadth ==
    gpc \notin {"off", "governance"} =>
        /\ \A sec \in {stock_data[i].sector : i \in 1..Len(stock_data)} \cup DOMAIN sector_map :
              sec \in DOMAIN sector_map <=> SectorMembers(sec) >= 5
        /\ gpc = "score" =>
              \A i \in 1..Len(stock_data) :
                 LET res == calculate_score(ItemInput(stock_data[i], sector_map))
                 IN (res.kind = "candidate" /\ SectorMembers(res.sector) < 5) => res.s = 50
        /\ \A res \in Range(candidates) : SectorMembers(res.sector) < 5 => res.s = 50

\* C17 witness: sectors of 5 and of 3 items; only the first is in the map,
\* a candidate of the first was scored with 100 and one of the second with 50.
C17_Witness ==
    /\ gpc = "sort"
    /\ \E big, small \in {stock_data[i].sector : i \in 1..Len(stock_data)} :
          /\ SectorMembers(big) = 5
          /\ SectorMembers(small) = 3
          /\ DOMAIN sector_map = {big}
          /\ \E res \in Range(candidates) : res.sector = big /\ res.s = 100
          /\ \E res \in Range(candidates) : res.sector = small /\ res.s = 50

\* C18: with n sectors ranked, the sector at rank index i (0 for the best)
\* has the score round((1 - i/n) * 100), the integer nearest to
\* (n - i) * 100 / n; the best one has 100.
C18_SectorScoreIsRounded ==
    gpc \notin {"off", "governance"} =>
        LET n == Len(sorted_secs)
        IN \A r \in 1..n :
              LET sc == sector_map[sorted_secs[r].sector]
                  off == sc * n - (n - (r - 1)) * 100
              IN /\ 2 * (IF off < 0 THEN 0 - off ELSE off) <= n
                 /\ r = 1 => sc = 100

\* The sectors with at least MIN_SECTOR_SIZE processed items.
BroadSectors ==
    {sec \in {stock_data[i].sector : i \in 1..Len(stock_data)} : SectorMembers(sec) >= 5}

\* C30: after the governance step, the dispersion of two or more ranked
\* sectors is at least 15 (its square at least 225), as it is for every
\* number of ranked sectors from 2 to 20; so kill_switch is true iff fewer
\* than two sectors have at least 5 processed items, whatever the sectors'
\* performances are, and the contract the run writes has protocol
\* REDUCE_SIZE_50 iff that is so.
C30_KillSwitchIsBreadthOnly ==
    gpc \notin {"off", "governance"} =>
        /\ Len(sorted_secs) = Cardinality(BroadSectors)
        /\ Len(sorted_secs) >= 2 => dispersion.num >= 225 * dispersion.den
        /\ gpc = "score" =>
              \A n \in 2..20 :
                 LET d == Dispersion2([i \in 1..n |-> i])
                 IN d.num >= 225 * d.den
        /\ kill_switch <=> Cardinality(BroadSectors) < 2
        /\ signal_file.state = "complete" =>
              (signal_file.body.meta.protocol = "REDUCE_SIZE_50" <=> Cardinality(BroadSectors) < 2)

\* C30 witness: every sector has the same median performance, more than two
\* are ranked, and the contract is written with the kill switch off.
C30_Witness ==
    /\ gpc = "done"
    /\ Len(sorted_secs) > 2
    /\ \A i \in 1..Len(sorted_secs) : sorted_secs[i].median2 = sorted_secs[1].median2
    /\ dispersion.num >= 225 * dispersion.den
    /\ ~kill_switch
    /\ signal_file.state = "complete"
    /\ ~signal_file.body.meta.kill_switch

\* C21: every item for which calculate_score returns a result is in exactly
\* one of candidates (score > 75) and rejected (score <= 75, reason
\* "Low Score"); every entry of the contract the run wrote has a score above
\* 75 and no rejected symbol is in the contract.
C21_RoutedByThreshold ==
    gpc \in {"sort", "write", "writing", "done"} =>
        LET cands == {candidates[i].symbol : i \in 1..Len(candidates)}
            rejs == {rejected[i].symbol : i \in 1..Len(rejected)}
        IN /\ \A res \in Range(candidates) : res.score > 75
           /\ \A r \in Range(rejected) : r.score <= 75 /\ r.reason = "Low Score"
           /\ Cardinality(cands) = Len(candidates) /\ Cardinality(rejs) = Len(rejected)
           /\ gpc = "sort" =>
                 \A i \in 1..Len(stock_data) :
                    LET res == calculate_score(ItemInput(stock_data[i], sector_map))
                    IN IF res.kind = "candidate"
                       THEN (res.symbol \in cands) # (res.symbol \in rejs)
                       ELSE stock_data[i].symbol \notin cands \cup rejs
           /\ signal_file.state = "complete" =>
                 \A u \in Range(signal_file.body.universe) : u.score > 75 /\ u.symbol \notin rejs

\* C21 witness: a run that rejected an item of score exactly 75, kept one
\* of score 76 or more, and wrote its contract.
C21_Witness ==
    /\ gpc = "done"
    /\ signal_file.state = "complete"
    /\ Len(signal_file.body.universe) > 0
    /\ \E r \in Range(rejected) : r.score = 75

\* C25: an error raised while scoring one symbol excludes only that symbol:
\* the run does not end in the scoring loop, and once the loop is over every
\* other item for which calculate_score gives a result is among the
\* candidates or the rejected.
C25_PerSymbolSkip ==
    /\ gpc # "raised"
    /\ gpc \in {"sort", "write", "writing", "done"} =>
          \A i \in 1..Len(stock_data) :
              LET res == calculate_score(ItemInput(stock_data[i], sector_map))
              IN res.kind = "candidate" =>
                    \E r \in Range(candidates) \cup Range(rejected) : r.symbol = res.symbol

(***************************************************************************)
(* Claims about the Orchestrator (checked under SpecOrch)                  *)
(***************************************************************************)
\* C4: the Strategy stage is started at most once per calendar day, and
\* only at or after the daily run time, whatever the outcome of its runs.
C4_OneStrategyStartPerDay ==
    /\ \A i, j \in 1..Len(strategy_starts) :
          i < j => strategy_starts[i].date # strategy_starts[j].date
    /\ \A i \in 1..Len(strategy_starts) :
          strategy_starts[i].minute >= STRATEGY_RUN_MINUTE

\* C8: a Strategy run started by the Orchestrator enters the contract writer
\* only after its health probe succeeded and its circuit breaker decided to
\* go on, so never with a failure rate above 0.15.
C8_GovernedBeforeContract ==
    (opc = "strategy" /\ wpc # "idle") =>
        /\ s_probe = "ok"
        /\ decision \in {"refresh", "skip"}
        /\ failures * 100 <= 15 * Len(symbols)

\* A stage has failed in this tick: its main raised and the Orchestrator
\* has not yet gone on.
StageFailed ==
    \/ opc = "strategy" /\ spc = "done" /\ s_ret = "raised"
    \/ opc = "execution" /\ epc = "done" /\ e_ret = "raised"

\* C26: a failure of the Strategy or of the Execution stage does not end
\* the loop: after a Strategy failure the loop goes on to the Execution
\* check of the same tick, and after either failure the next tick
\* eventually begins.
C26_FailureDoesNotStopLoop ==
    /\ [][(opc = "strategy" /\ s_ret = "raised" /\ opc' # opc)
            => (opc' = "exec_check" /\ o_ticks' = o_ticks)]_vars
    /\ \A k \in 0..(MaxTicks - 1) :
          (StageFailed /\ o_ticks = k) ~> (opc = "tick" /\ o_ticks = k + 1)

\* C26 witness: the second tick begins after a tick in which the Strategy
\* run raised and an Execution run was started all the same.
C26_Witness ==
    /\ opc = "tick"
    /\ o_ticks = 1
    /\ Len(strategy_starts) = 1
    /\ last_strategy_run = 0
    /\ e_runs = 1

\* Minutes since the midnight that began day 0.
MinuteOf(c) == c.date * 1440 + c.minute

\* A step starts at most one Execution run, and only from the check of the
\* tick; the check of a tick outside the window starts none.
StartsOnlyInSession ==
    /\ e_runs' \in {e_runs, e_runs + 1}
    /\ (e_runs' = e_runs + 1) => (opc = "exec_check")
    /\ (opc = "exec_check"
          /\ ~((clock.date - 1) % 7 \in 0..4 /\ clock.minute \in (9 * 60)..(16 * 60 - 1)))
       => (opc' = "sleep" /\ e_runs' = e_runs /\ epc' = "idle" /\ epc = "idle")

\* C27: an Execution run is started only by the check of a tick whose time
\* is a weekday (Monday to Friday) hour 9 to 15, one run at a time; the
\* check of a tick outside the window starts none and goes to the sleep; and
\* two consecutive starts are at least 15 minutes apart.
C27_ExecutionOnlyInSession ==
    /\ [](/\ Len(exec_starts) = e_runs
          /\ \A i \in 1..Len(exec_starts) :
                /\ (exec_starts[i].date - 1) % 7 \in 0..4
                /\ exec_starts[i].minute \in (9 * 60)..(16 * 60 - 1)
          /\ \A i \in 1..(Len(exec_starts) - 1) :
                MinuteOf(exec_starts[i + 1]) - MinuteOf(exec_starts[i]) >= 15)
    /\ [][StartsOnlyInSession]_vars

\* C27 witness: two consecutive ticks of a weekday morning each started a
\* run, exactly 15 minutes apart, and the loop is asleep after the second.
C27_Witness ==
    /\ Len(exec_starts) = 2
    /\ MinuteOf(exec_starts[2]) - MinuteOf(exec_starts[1]) = 15
    /\ o_ticks = 1
    /\ opc = "sleep"
    /\ e_runs = 2

\* The step in which the Orchestrator takes the outcome of the Strategy main:
\* a normal return records the date of the tick, an exception records nothing.
DayRecordedOnReturnOnly ==
    (opc = "strategy" /\ opc' # opc) =>
        IF s_ret = "normal"
        THEN /\ last_strategy_run' = clock.date
             /\ Len(strategy_returns') = Len(strategy_returns) + 1
        ELSE /\ s_ret = "raised"
             /\ last_strategy_run' = last_strategy_run
             /\ strategy_returns' = strategy_returns

\* C31: when the Strategy main returns normally, with or without a contract
\* written, the Orchestrator records the date of the tick and starts no
\* later Strategy run on that date; a run that raised records nothing, so
\* a second start on a date happens only after runs that raised.
C31_NormalReturnClosesTheDay ==
    /\ [](/\ \A k \in 1..Len(strategy_returns) :
                \A i \in (strategy_returns[k].starts + 1)..Len(strategy_starts) :
                   strategy_starts[i].date # strategy_returns[k].date
          /\ (opc \in {"exec_check", "execution", "sleep"} /\ last_strategy_run = clock.date) =>
                \E k \in 1..Len(strategy_returns) : strategy_returns[k].date = clock.date)
    /\ [][DayRecordedOnReturnOnly]_vars

\* C31 witness: the run of the first tick returned normally without having
\* written a contract, and the second tick, on the same date and past the
\* run time, started no Strategy run.
C31_Witness ==
    /\ o_ticks = 1
    /\ opc = "sleep"
    /\ Len(strategy_returns) = 1
    /\ strategy_returns[1].date = clock.date
    /\ Len(strategy_starts) = 1
    /\ is_past_strategy_time(clock)
    /\ signal_file = CompleteFile(Contract(FALSE, 0, <<Cand("RELIANCE", 80)>>))

\* The step of the circuit breaker, taken after the fetch step, of whatever
\* outcome, leaves one of the three decisions and raises nothing of its own.
BreakerStepDecides ==
    (spc = "breaker" /\ spc' # spc) =>
        /\ decision' \in {"abort", "refresh", "skip"}
        /\ Len(symbols) = 0 => s_ret' # "raised"

\* C32: the circuit breaker yields one of its three decisions for every
\* outcome of the fetch step; with an empty universe after the quarantine
\* filter (attempted = 0) the run goes on to an abort or a proceed decision
\* and does not end in an exception.
C32_BreakerDecidesEveryOutcome ==
    [][BreakerStepDecides]_vars

\* A step leaves in the quarantine file only entries it held, each with the
\* date it had.
QuarantineOnlyShrinks ==
    /\ DOMAIN q_file' \subseteq DOMAIN q_file
    /\ \A sym \in DOMAIN q_file' : q_file'[sym] = q_file[sym]

\* C33: no step of a Strategy run adds an entry to the quarantine file or
\* changes the date of one, whatever the number of symbols whose fetch
\* failed: the symbols of the file after the run are among those before it
\* and each remaining entry has the date it had.
C33_RunNeverJails ==
    [][QuarantineOnlyShrinks]_vars

\* C33 witness: a run in which fetches failed has ended; it paroled symbol
\* 1 and rewrote the file, where symbol 2 is still jailed under its date.
C33_Witness ==
    /\ stage = "strategy"
    /\ spc = "done"
    /\ failures > 0
    /\ decision # "none"
    /\ "quarantine" \in Range(writes)
    /\ 1 \in Range(symbols)
    /\ DOMAIN q_file = {2}
    /\ q_file[2] = Stored(3)

====
